---------------------------- MODULE Spec2Model ----------------------------
(***************************************************************************)
(* Temporal annotation pipeline of lerobot-annotate: windowed subtask and  *)
(* VQA generation (ai_plugin_impl/engine.py, strategy_subtask.py,          *)
(* strategy_vqa.py), the annotation store and the export-time projection   *)
(* (app.py).                                                               *)
(*                                                                         *)
(* Times are integers counted in ticks of one third of a millisecond, so   *)
(* that round(x, 3) is a real rounding and never meets a tie.              *)
(***************************************************************************)
EXTENDS Integers, Sequences, FiniteSets, TLC

VARIABLES
    asgIn,      \* arguments of assign_indices_by_segments
    asgDone,    \* whether the function has been applied
    asgOut,     \* its result, one index per timestamp
    mrgIn,      \* argument of _merge_adjacent_subtasks
    mrgDone,    \* whether the function has been applied
    mrgOut,     \* its result
    dataset,    \* DataManager.info and DataManager.episodes_df
    loaded,     \* the annotation document read at dataset-load time
    annotations,\* DataManager.annotations: episode index -> EpisodeAnnotations
    saved,      \* the content of meta/lerobot_annotations.json
    pc,         \* "idle", inside a generation call, or "done"
    req,        \* the request of the generation call
    loc,        \* the locals of the generation call
    ret,        \* what the call returned or raised
    expIn,      \* DataManager state and files export_dataset reads
    expDone,    \* whether export_dataset has run
    expOut,     \* its outcome and the files it has written
    fnIn,       \* arguments of a function applied on its own
    fnDone,     \* whether it has been applied
    fnOut,      \* its result
    cache,      \* the files of FrameSampler.cache_dir, by file name
    calls,      \* the extract_frame / extract_clip call of each thread
    firstOk,    \* per argument tuple, what its first successful call returned
    racers,     \* per request thread: its position in the persist code and what it holds
    writeOrder  \* the threads in the order of their stores into the annotation state

asgVars == <<asgIn, asgDone, asgOut>>
mrgVars == <<mrgIn, mrgDone, mrgOut>>
genVars == <<dataset, loaded, annotations, saved, pc, req, loc, ret>>
expVars == <<expIn, expDone, expOut>>
fnVars == <<fnIn, fnDone, fnOut>>
cchVars == <<cache, calls, firstOk>>
rceVars == <<racers, writeOrder>>
vars == <<asgVars, mrgVars, genVars, expVars, fnVars, cchVars, rceVars>>

\* the variables of a part of the system that a specification leaves out
AssignIdle == asgIn = <<>> /\ asgDone = FALSE /\ asgOut = <<>>
MergeIdle == mrgIn = <<>> /\ mrgDone = FALSE /\ mrgOut = <<>>
GenIdle ==
    /\ dataset = <<>> /\ loaded = <<>> /\ annotations = <<>> /\ saved = <<>>
    /\ pc = "unused" /\ req = <<>> /\ loc = <<>> /\ ret = <<>>
ExportIdle == expIn = <<>> /\ expDone = FALSE /\ expOut = <<>>
FnIdle == fnIn = <<>> /\ fnDone = FALSE /\ fnOut = <<>>
CacheIdle == cache = <<>> /\ calls = <<>> /\ firstOk = <<>>
RaceIdle == racers = <<>> /\ writeOrder = <<>>

---------------------------------------------------------------------------
(* Time base *)

\* ticks per millisecond (a tick is a third of a microsecond): round(x, 3)
\* rounds to a multiple of Ms
Ms == 3000
Sec == 1000 * Ms
\* 1e-6 s, the tolerance of the loops
Micro == Ms \div 1000

Min(a, b) == IF a <= b THEN a ELSE b
Max(a, b) == IF a >= b THEN a ELSE b

\* round(float(x), 3): the nearest multiple of one millisecond
Round3(x) == ((2 * x + Ms) \div (2 * Ms)) * Ms

\* dict.get(key, default)
Get(d, key, default) == IF key \in DOMAIN d THEN d[key] ELSE default

\* del d[key] / d.pop(key, None)
Drop(d, key) == [x \in DOMAIN d \ {key} |-> d[x]]

\* Optional[...] values: None, or a value
None == <<>>
Some(v) == <<v>>
IsNone(x) == x = <<>>
Val(x) == x[1]
\* bool(x) of an Optional[int]: neither None nor 0
Truthy(x) == x # <<>> /\ x[1] # 0

\* d[key] = value on a dict
Put(d, key, value) ==
    [x \in DOMAIN d \cup {key} |-> IF x = key THEN value ELSE d[x]]

---------------------------------------------------------------------------
(* Export-time projection: app.py *)

\* Python's None as the value of a key, written as a text that no other text
\* of the model equals
Null == "<None>"

\* x or ""
OrEmpty(x) == IF x = Null THEN "" ELSE x

\* the five parts handed to "||".join, and the key kept as the tuple of them
make_task_key(seg) ==
    << Get(seg, "user_prompt", ""),
       Get(seg, "robot_utterance", ""),
       OrEmpty(Get(seg, "skill", "")),
       Get(seg, "scenario_type", ""),
       Get(seg, "response_type", "") >>

\* str.join raises TypeError on a part that is None
TaskKeyRaises(seg) == \E i \in 1..5 : make_task_key(seg)[i] = Null

\* sorted(segments, key=lambda s: float(s.get("start", 0))): a stable sort
RECURSIVE segments_sorted(_)
segments_sorted(segments) ==
    IF segments = <<>> THEN <<>>
    ELSE LET n    == Len(segments)
             init == segments_sorted(SubSeq(segments, 1, n - 1))
             s    == segments[n]
             k    == Cardinality({i \in 1..Len(init) :
                         Get(init[i], "start", 0) <= Get(s, "start", 0)})
         IN  SubSeq(init, 1, k) \o <<s>> \o SubSeq(init, k + 1, Len(init))

\* the interval test with the upper boundary closed for every segment
SegmentMatches_ClosedEnd(sorted, seg_idx, ts_val) ==
    LET start   == Get(sorted[seg_idx], "start", 0)
        end     == Get(sorted[seg_idx], "end", 0)
    IN  start <= ts_val /\ ts_val <= end

\* the condition of the inner loop, for the segment at seg_idx of the sorted list
SegmentMatches(sorted, seg_idx, ts_val) ==
    LET start   == Get(sorted[seg_idx], "start", 0)
        end     == Get(sorted[seg_idx], "end", 0)
        is_last == seg_idx = Len(sorted)
    IN  (start <= ts_val /\ ts_val < end) \/ (is_last /\ ts_val <= end)

\* the value written for one timestamp: the first matching segment's index
AssignOne(sorted, ts_val, mapping, label_key) ==
    LET hits == {j \in 1..Len(sorted) : SegmentMatches(sorted, j, ts_val)}
    IN  IF hits = {} THEN -1
        ELSE LET seg_idx == CHOOSE j \in hits : \A k \in hits : j <= k
                 seg     == sorted[seg_idx]
                 label   == IF label_key = "task_key" THEN make_task_key(seg)
                            ELSE Get(seg, label_key, "")
             IN  Get(mapping, label, -1)

assign_indices_by_segments(timestamps, segments, mapping, label_key) ==
    IF segments = <<>> THEN [i \in 1..Len(timestamps) |-> -1]
    ELSE LET sorted == segments_sorted(segments)
         IN  [i \in 1..Len(timestamps) |->
                 AssignOne(sorted, timestamps[i], mapping, label_key)]

---------------------------------------------------------------------------
(* Inputs of the projection *)

MaxAsgSegs == 3

Seg(s, e, l) == [start |-> s, end |-> e, label |-> l]

AsgBounds == {0, Sec, 2 * Sec, 3 * Sec}
AsgLabels == {"L0", "L1"}
AsgSegs == {Seg(s, e, l) : s \in AsgBounds, e \in AsgBounds, l \in AsgLabels}
AsgSegments == {x \in AsgSegs : x.start < x.end}
AsgSegLists == UNION {[1..n -> AsgSegments] : n \in 0..MaxAsgSegs}

ExampleTimestamps == <<0, 999 * Ms, Sec, 1999 * Ms, 2 * Sec>>
GridTimestamps == <<0, 500 * Ms, 999 * Ms, Sec, 1500 * Ms, 1999 * Ms,
                    2 * Sec, 2500 * Ms, 3 * Sec, 3500 * Ms>>
AsgMappings == { [l \in {"L0", "L1"} |-> IF l = "L0" THEN 0 ELSE 1],
                 [l \in {"L0"} |-> 0] }

InitAssign ==
    /\ asgIn \in [segments : AsgSegLists,
                  timestamps : {ExampleTimestamps, GridTimestamps},
                  mapping : AsgMappings,
                  label_key : {"label"}]
    /\ asgDone = FALSE
    /\ asgOut = <<>>
    /\ MergeIdle
    /\ GenIdle
    /\ ExportIdle
    /\ FnIdle
    /\ CacheIdle
    /\ RaceIdle

Assign ==
    /\ ~asgDone
    /\ asgDone' = TRUE
    /\ asgOut' = assign_indices_by_segments(asgIn.timestamps, asgIn.segments,
                                            asgIn.mapping, asgIn.label_key)
    /\ UNCHANGED <<asgIn, mrgVars, genVars, expVars, fnVars, cchVars, rceVars>>

NextAssign == Assign

SpecAssign == InitAssign /\ [][NextAssign]_vars

---------------------------------------------------------------------------
(* The projection applied to lists that hold malformed records *)

MaxLooseSegs == 2

\* records without start or without end, as an annotation document may hold
\* them: _load_existing_annotations takes the lists as they are
LooseSegments ==
    AsgSegments
    \cup { [end |-> e, label |-> l] : e \in AsgBounds \ {0}, l \in AsgLabels }
    \cup { [start |-> s, label |-> l] : s \in AsgBounds \ {3 * Sec}, l \in AsgLabels }
LooseSegLists == UNION {[1..n -> LooseSegments] : n \in 0..MaxLooseSegs}

InitAssignLoose ==
    /\ asgIn \in [segments : LooseSegLists,
                  timestamps : {GridTimestamps},
                  mapping : AsgMappings,
                  label_key : {"label"}]
    /\ asgDone = FALSE
    /\ asgOut = <<>>
    /\ MergeIdle
    /\ GenIdle
    /\ ExportIdle
    /\ FnIdle
    /\ CacheIdle
    /\ RaceIdle

SpecAssignLoose == InitAssignLoose /\ [][NextAssign]_vars

HasSpan(seg) == "start" \in DOMAIN seg /\ "end" \in DOMAIN seg

\* C24: a segment record that lacks start or end is dropped before the
\* assignment: the output of assign_indices_by_segments is the output on the
\* list with those records removed.
C24_MalformedDropped ==
    asgDone =>
        asgOut = assign_indices_by_segments(asgIn.timestamps,
                                            SelectSeq(asgIn.segments, HasSpan),
                                            asgIn.mapping, asgIn.label_key)

---------------------------------------------------------------------------
(* Claims about assign_indices_by_segments *)

SegIdx == 1..Len(asgIn.segments)
TsIdx == 1..Len(asgIn.timestamps)
SegStart(j) == asgIn.segments[j].start
SegEnd(j) == asgIn.segments[j].end
\* the index the mapping gives the label of segment j
SegIndex(j) == Get(asgIn.mapping, asgIn.segments[j].label, -1)
\* segment j comes last in start order
IsLastByStart(j) == \A k \in SegIdx : SegStart(k) <= SegStart(j)

\* the segments tile one interval: no two overlap, and every segment but the
\* one with the greatest start ends where another one starts
Contiguous ==
    /\ asgIn.segments # <<>>
    /\ \A j, k \in SegIdx :
           j # k => (SegEnd(j) <= SegStart(k) \/ SegEnd(k) <= SegStart(j))
    /\ \A j \in SegIdx :
           IsLastByStart(j) \/ \E k \in SegIdx : SegStart(k) = SegEnd(j)

ExampleSegments == { <<Seg(0, Sec, "L0"), Seg(Sec, 2 * Sec, "L1")>>,
                     <<Seg(Sec, 2 * Sec, "L1"), Seg(0, Sec, "L0")>> }

\* C4: for contiguous non-overlapping segments every timestamp inside
\* [start, end) of a segment gets that segment's index, the upper boundary of
\* a non-last segment gets the next segment's index, the upper boundary of
\* the last segment gets the last segment's index, and the segments
\* [(0,1,L0),(1,2,L1)] with timestamps [0, 0.999, 1.0, 1.999, 2.0] give
\* [0,0,1,1,1].
C4_BoundaryAssignment ==
    (asgDone /\ Contiguous) =>
        /\ \A i \in TsIdx : \A j \in SegIdx :
             LET ts == asgIn.timestamps[i] IN
             /\ (SegStart(j) <= ts /\ ts < SegEnd(j)) => asgOut[i] = SegIndex(j)
             /\ (ts = SegEnd(j) /\ IsLastByStart(j)) => asgOut[i] = SegIndex(j)
             /\ (ts = SegEnd(j) /\ ~IsLastByStart(j)) =>
                    \E k \in SegIdx : SegStart(k) = ts /\ asgOut[i] = SegIndex(k)
        /\ ( /\ asgIn.segments \in ExampleSegments
             /\ asgIn.timestamps = ExampleTimestamps
             /\ DOMAIN asgIn.mapping = {"L0", "L1"} )
           => asgOut = <<0, 0, 1, 1, 1>>

\* the example of C4, with the segment list given in reverse order
C4_Witness ==
    /\ asgDone
    /\ asgIn.segments = <<Seg(Sec, 2 * Sec, "L1"), Seg(0, Sec, "L0")>>
    /\ asgIn.timestamps = ExampleTimestamps
    /\ asgOut = <<0, 0, 1, 1, 1>>

\* no segment holds ts in [start, end), and no segment that comes last in
\* start order holds it in [start, end]
Unmatched(ts) ==
    /\ \A j \in SegIdx : ~(SegStart(j) <= ts /\ ts < SegEnd(j))
    /\ \A j \in SegIdx : IsLastByStart(j) => ~(SegStart(j) <= ts /\ ts <= SegEnd(j))

\* C5: a timestamp matched by no segment gets index -1, timestamps before the
\* first segment's start and inside a gap between two segments included.
C5_UnmatchedGetMinusOne ==
    asgDone => \A i \in TsIdx : Unmatched(asgIn.timestamps[i]) => asgOut[i] = -1

Permuted(segs, p) == [i \in 1..Len(segs) |-> segs[p[i]]]

\* C6: every permutation of the segment list gives the same indices for the
\* same timestamps and mapping.
C6_PermutationInvariant ==
    asgDone =>
        \A p \in Permutations(SegIdx) :
            assign_indices_by_segments(asgIn.timestamps, Permuted(asgIn.segments, p),
                                       asgIn.mapping, asgIn.label_key) = asgOut

---------------------------------------------------------------------------
(* Post-processing of generated subtasks: ai_plugin_impl/engine.py *)

\* the loop body with the merge test prev.end > s.start
MergeStep_StrictGap(out, s) ==
    IF out = <<>> THEN <<s>>
    ELSE LET prev == out[Len(out)] IN
         IF /\ Get(prev, "label", "") = Get(s, "label", "")
            /\ Get(prev, "end", 0) > Get(s, "start", 0)
         THEN [out EXCEPT ![Len(out)] =
                  Put(prev, "end", Max(Get(prev, "end", 0), Get(s, "end", 0)))]
         ELSE Append(out, s)

\* one pass of the loop over the segments: s joins the last kept segment or is
\* kept as a new one
MergeStep(out, s) ==
    IF out = <<>> THEN <<s>>
    ELSE LET prev == out[Len(out)] IN
         IF /\ Get(prev, "label", "") = Get(s, "label", "")
            /\ Get(prev, "end", 0) >= Get(s, "start", 0)
         THEN [out EXCEPT ![Len(out)] =
                  Put(prev, "end", Max(Get(prev, "end", 0), Get(s, "end", 0)))]
         ELSE Append(out, s)

RECURSIVE MergeLoop(_, _)
MergeLoop(out, segments) ==
    IF segments = <<>> THEN out
    ELSE MergeLoop(MergeStep(out, Head(segments)), Tail(segments))

\* the closing loop: start and end rounded to three decimals
RoundFields(s) ==
    Put(Put(s, "start", Round3(Get(s, "start", 0))), "end", Round3(Get(s, "end", 0)))

_merge_adjacent_subtasks(segments) ==
    IF segments = <<>> THEN <<>>
    ELSE LET out == MergeLoop(<<>>, segments)
         IN  [k \in 1..Len(out) |-> RoundFields(out[k])]

---------------------------------------------------------------------------
(* Inputs of the merge *)

MaxMrgSegs == 3

MrgTimes == {0, 2 * Sec, 2 * Sec + 1, 4 * Sec, 5 * Sec}
MrgLabels == {"a", "b"}
MrgSegs == {Seg(s, e, l) : s \in MrgTimes, e \in MrgTimes, l \in MrgLabels}
MrgSegments == {x \in MrgSegs : x.start < x.end}
MrgSegLists == UNION {[1..n -> MrgSegments] : n \in 0..MaxMrgSegs}

InitMerge ==
    /\ mrgIn \in MrgSegLists
    /\ mrgDone = FALSE
    /\ mrgOut = <<>>
    /\ AssignIdle
    /\ GenIdle
    /\ ExportIdle
    /\ FnIdle
    /\ CacheIdle
    /\ RaceIdle

Merge ==
    /\ ~mrgDone
    /\ mrgDone' = TRUE
    /\ mrgOut' = _merge_adjacent_subtasks(mrgIn)
    /\ UNCHANGED <<mrgIn, asgVars, genVars, expVars, fnVars, cchVars, rceVars>>

NextMerge == Merge

SpecMerge == InitMerge /\ [][NextMerge]_vars

---------------------------------------------------------------------------
(* Claims about _merge_adjacent_subtasks *)

\* the merge as the claim words it: a merged segment takes the later
\* segment's end
RECURSIVE ClaimedMerge(_, _)
ClaimedMerge(out, segments) ==
    IF segments = <<>> THEN out
    ELSE LET s == Head(segments) IN
         IF out # <<>> /\ out[Len(out)].label = s.label
                       /\ out[Len(out)].end >= s.start
         THEN ClaimedMerge([out EXCEPT ![Len(out)].end = s.end], Tail(segments))
         ELSE ClaimedMerge(Append(out, s), Tail(segments))

Rounded(segments) ==
    [k \in 1..Len(segments) |->
        Seg(Round3(segments[k].start), Round3(segments[k].end), segments[k].label)]

RECURSIVE RunEnd(_)
Joined(i) ==
    /\ i >= 2
    /\ mrgIn[i].label = mrgIn[i - 1].label
    /\ RunEnd(i - 1) >= mrgIn[i].start
RunEnd(i) ==
    IF Joined(i) THEN Max(RunEnd(i - 1), mrgIn[i].end) ELSE mrgIn[i].end

\* the first segments of the groups, and the last segment of the group of h
GroupHeads == {i \in 1..Len(mrgIn) : ~Joined(i)}
GroupLast(h) ==
    CHOOSE j \in h..Len(mrgIn) :
        /\ \A i \in (h + 1)..j : Joined(i)
        /\ (j = Len(mrgIn) \/ ~Joined(j + 1))
\* the k-th smallest group head
KthHead(k) ==
    CHOOSE h \in GroupHeads : Cardinality({g \in GroupHeads : g <= h}) = k

---------------------------------------------------------------------------
(* Texts of the inference replies: sequences of characters *)

Whitespace == {" ", "\t"}

\* str.strip()
RECURSIVE LStrip(_)
LStrip(s) == IF s # <<>> /\ Head(s) \in Whitespace THEN LStrip(Tail(s)) ELSE s
RECURSIVE RStrip(_)
RStrip(s) ==
    IF s # <<>> /\ s[Len(s)] \in Whitespace THEN RStrip(SubSeq(s, 1, Len(s) - 1))
    ELSE s
Strip(s) == RStrip(LStrip(s))

---------------------------------------------------------------------------
(* Episode metadata and timing: ai_plugin_impl/adapter.py, app.py *)

\* int(row["length"]) / fps, in ticks
Duration(ds, ep) == (ds.rows[ep].length * Sec) \div ds.fps

\* _calculate_video_offsets with one choice for the whole table: the
\* timestamps are used only if no row has a null
_calculate_video_offsets_TableWide(ds, ep) ==
    LET row == ds.rows[ep] IN
    IF ds.has_timestamp_cols
       /\ \A e \in DOMAIN ds.rows : /\ ~IsNone(ds.rows[e].from_timestamp)
                                    /\ ~IsNone(ds.rows[e].to_timestamp)
    THEN [video_start_time |-> Val(row.from_timestamp),
          video_end_time   |-> Val(row.to_timestamp)]
    ELSE [video_start_time |-> 0, video_end_time |-> Duration(ds, ep)]

\* the entry of _calculate_video_offsets for one episode
_calculate_video_offsets(ds, ep) ==
    LET row == ds.rows[ep] IN
    IF ds.has_timestamp_cols /\ ~IsNone(row.from_timestamp) /\ ~IsNone(row.to_timestamp)
    THEN [video_start_time |-> Val(row.from_timestamp),
          video_end_time   |-> Val(row.to_timestamp)]
    ELSE [video_start_time |-> 0, video_end_time |-> Duration(ds, ep)]

\* get_episode_timing raises "Episode not found" unless the row exists
TimingFound(ds, ep) == ep \in DOMAIN ds.rows

get_episode_timing(ds, ep) ==
    LET info == IF ds.video_key THEN _calculate_video_offsets(ds, ep)
                ELSE [video_start_time |-> 0, video_end_time |-> Duration(ds, ep)]
    IN
    [fps |-> ds.fps,
     length |-> ds.rows[ep].length,
     duration |-> Duration(ds, ep),
     video_start_time |-> info.video_start_time,
     video_end_time |-> info.video_end_time]

\* get_episode_video_path returns a path unless the video key, the row or
\* the file is missing
VideoPathFound(ds, ep) ==
    ds.video_key /\ ep \in DOMAIN ds.rows /\ ds.rows[ep].video_file

---------------------------------------------------------------------------
(* Annotation store: app.py *)

EpisodeAnnotations == [subtasks |-> <<>>, high_levels |-> <<>>, qa_labels |-> <<>>]

\* the dict after get_episode_annotations(ep): an absent entry is created empty
get_episode_annotations(anns, ep) ==
    IF ep \in DOMAIN anns THEN anns ELSE Put(anns, ep, EpisodeAnnotations)

\* the document _save_annotations writes: every episode's three sequences
_save_annotations(anns) == anns

---------------------------------------------------------------------------
(* Subtask generation: engine.py generate_subtasks, strategy_subtask.py *)

\* the config defaults of generate_subtasks
DefaultSubtaskStride == 2 * Sec
DefaultSubtaskMaxSteps == 200
DefaultSummaryFrames == 6

\* max(1e-6, stride_s)
ClampStride(stride_s) == Max(Micro, stride_s)

\* stride_s as generate_subtasks resolves it (the episode is known when the
\* duration is consulted)
SubtaskStride(r, ds) ==
    IF ~IsNone(r.stride_s) THEN Val(r.stride_s)
    ELSE IF Truthy(r.max_segments)
         THEN Max(Ms, Duration(ds, r.episode_index)) \div Max(Val(r.max_segments), 1)
         ELSE DefaultSubtaskStride

SubtaskMaxSteps(r) ==
    IF ~IsNone(r.max_steps) THEN Val(r.max_steps)
    ELSE IF ~IsNone(r.max_segments) THEN Val(r.max_segments)
    ELSE DefaultSubtaskMaxSteps

\* start_time_s: the override, or with resume_from_last the end of the last
\* stored segment
ResumeStart(r, list) ==
    IF IsNone(r.start_time_s) /\ r.resume_from_last /\ list # <<>>
    THEN (IF "end" \in DOMAIN list[Len(list)] THEN Some(list[Len(list)].end) ELSE None)
    ELSE r.start_time_s

\* whether generate_subtasks looks the annotations up before generating
ReadsAnnotations(r) == IsNone(r.start_time_s) /\ r.resume_from_last

\* t0 of AutoSubtaskGenerator.generate
SubtaskT0(start_time_s, duration) ==
    LET t0 == IF IsNone(start_time_s) THEN 0 ELSE Val(start_time_s)
    IN  Max(0, Min(t0, Max(0, duration - Ms)))

\* the while condition without the step budget
SubtaskLoopRuns_NoStepCap(l) == l.t < l.duration

\* the while condition of AutoSubtaskGenerator.generate
SubtaskLoopRuns(l) == l.t < l.duration /\ l.steps < l.max_steps

\* the episode's offset added to the window, without the clamps
AbsWindow_Unclamped(timing, seg_start, seg_end) ==
    [abs_start |-> timing.video_start_time + seg_start,
     abs_end   |-> timing.video_start_time + seg_end]

\* the absolute times handed to the sampler for the window [seg_start, seg_end]
AbsWindow(timing, seg_start, seg_end) ==
    [abs_start |-> Min(Max(timing.video_start_time + seg_start, timing.video_start_time),
                       timing.video_end_time - Ms),
     abs_end   |-> Min(Max(timing.video_start_time + seg_end,
                           timing.video_start_time + seg_start + Ms),
                       timing.video_end_time)]

\* what one window's transcoding and inference give: the label, or an exception
\* an empty label is taken as a label
PredictLabel_AcceptsEmpty(outcome) ==
    IF outcome.kind # "reply" THEN [ok |-> FALSE, label |-> <<>>]
    ELSE [ok |-> TRUE, label |-> Strip(Get(outcome.obj, "label", <<>>))]

\* what one window's transcoding and inference give: sample_video raises on a
\* transcoder failure, chat on a failed request, extract_json_object on a
\* reply without an object, _predict_label_over_segment on an empty label
PredictLabel(outcome) ==
    IF outcome.kind # "reply" THEN [ok |-> FALSE, label |-> <<>>]
    ELSE LET label == Strip(Get(outcome.obj, "label", <<>>))
         IN  [ok |-> label # <<>>, label |-> label]

\* the schema normalisation of generate_subtasks: robot_response becomes
\* robot_utterance, and an empty robot_response is dropped
NormalizeSchema(s) ==
    LET s1 == IF "robot_utterance" \notin DOMAIN s /\ "robot_response" \in DOMAIN s
              THEN Drop(Put(s, "robot_utterance", s.robot_response), "robot_response")
              ELSE s
    IN  IF "robot_response" \in DOMAIN s1 /\ Strip(s1.robot_response) = <<>>
        THEN Drop(s1, "robot_response")
        ELSE s1

\* the list generate_subtasks returns for the generator's segments
SubtaskReturn(r, segments) ==
    LET merged == IF r.merge_adjacent THEN _merge_adjacent_subtasks(segments)
                  ELSE segments
    IN  [k \in 1..Len(merged) |-> NormalizeSchema(merged[k])]

\* the persist step extending the list whatever the mode is
PersistSubtasks_AlwaysAppend(r, old, segments) == old \o segments

\* ann.subtasks after the persist step
PersistSubtasks(r, old, segments) ==
    IF r.mode = "replace" THEN segments ELSE old \o segments

Raised(op, why) == [op |-> op, status |-> "error", segments |-> <<>>, error |-> why]
Returned(op, segments) == [op |-> op, status |-> "ok", segments |-> segments, error |-> ""]

\* the end of generate_subtasks: merge, normalise, persist, save, return
SubtasksFinish(r, anns, l) ==
    LET ep    == r.episode_index
        out   == SubtaskReturn(r, l.segments)
        anns2 == get_episode_annotations(anns, ep)
        anns3 == [anns2 EXCEPT ![ep].subtasks = PersistSubtasks(r, @, out)]
    IN  /\ annotations' = anns3
        /\ saved' = _save_annotations(anns3)
        /\ ret' = Returned("subtasks", out)
        /\ loc' = l
        /\ pc' = "done"

\* an exception leaves the generation call: nothing is persisted
GenRaise(op, anns, l, why) ==
    /\ annotations' = anns
    /\ ret' = Raised(op, why)
    /\ loc' = l
    /\ pc' = "done"
    /\ UNCHANGED saved

NoOutcome == [kind |-> "none"]
\* the locals of a call that has not reached its generator
NoLocals == [segments |-> <<>>, windows |-> <<>>, outcome |-> NoOutcome]
NoReturn == [op |-> "none", status |-> "none", segments |-> <<>>, error |-> ""]

\* generate_subtasks up to its first window: parameters, resume point, episode
\* timing, episode summary, video path
SubtasksBegin(r, summary_ok) ==
    /\ pc = "idle"
    /\ req' = r
    /\ UNCHANGED <<dataset, loaded>>
    /\ LET ep == r.episode_index
           summary_frames == IF IsNone(r.summary_frames) THEN DefaultSummaryFrames
                             ELSE Val(r.summary_frames)
       IN
       IF IsNone(r.stride_s) /\ Truthy(r.max_segments) /\ ~TimingFound(dataset, ep)
       THEN GenRaise("subtasks", annotations, NoLocals, "not_found")
       ELSE
       LET anns1 == IF ReadsAnnotations(r) THEN get_episode_annotations(annotations, ep)
                    ELSE annotations
           start_time_s == ResumeStart(r, IF ReadsAnnotations(r) THEN anns1[ep].subtasks
                                          ELSE <<>>)
       IN
       IF ~TimingFound(dataset, ep)
       THEN GenRaise("subtasks", anns1, NoLocals, "not_found")
       ELSE
       LET timing == get_episode_timing(dataset, ep)
           l == [t |-> SubtaskT0(start_time_s, timing.duration),
                 steps |-> 0,
                 segments |-> <<>>,
                 windows |-> <<>>,
                 outcome |-> NoOutcome,
                 stride_s |-> ClampStride(SubtaskStride(r, dataset)),
                 max_steps |-> Max(1, SubtaskMaxSteps(r)),
                 start_time_s |-> start_time_s,
                 duration |-> timing.duration,
                 timing |-> timing]
       IN
       IF timing.duration <= 0 THEN SubtasksFinish(r, anns1, l)
       ELSE IF ~VideoPathFound(dataset, ep)
            THEN GenRaise("subtasks", anns1, l, "not_found")
       ELSE IF summary_frames > 0 /\ ~summary_ok
            THEN GenRaise("subtasks", anns1, l, "summary")
       ELSE IF SubtaskLoopRuns(l)
            THEN /\ pc' = "subtasks"
                 /\ loc' = l
                 /\ annotations' = anns1
                 /\ UNCHANGED <<saved, ret>>
            ELSE SubtasksFinish(r, anns1, l)

\* one pass of the while loop of AutoSubtaskGenerator.generate, and with the
\* last pass the rest of generate_subtasks
SubtasksWindow(outcome) ==
    /\ pc = "subtasks"
    /\ UNCHANGED <<dataset, loaded, req>>
    /\ LET seg_start == loc.t
           seg_end   == Min(loc.duration, seg_start + loc.stride_s)
           abs       == AbsWindow(loc.timing, seg_start, seg_end)
           res       == PredictLabel(outcome)
           l1 == [loc EXCEPT !.outcome = outcome,
                             !.windows = Append(@, [seg_start |-> seg_start,
                                                    seg_end |-> seg_end,
                                                    abs_start |-> abs.abs_start,
                                                    abs_end |-> abs.abs_end])]
       IN
       IF ~res.ok THEN GenRaise("subtasks", annotations, l1, "window")
       ELSE
       LET l2 == [l1 EXCEPT !.segments = Append(@, [start |-> Round3(seg_start),
                                                    end |-> Round3(seg_end),
                                                    label |-> res.label]),
                            !.t = @ + loc.stride_s,
                            !.steps = @ + 1]
       IN  IF SubtaskLoopRuns(l2)
           THEN /\ loc' = l2
                /\ UNCHANGED <<annotations, saved, ret, pc>>
           ELSE SubtasksFinish(req, annotations, l2)

---------------------------------------------------------------------------
(* The loaded dataset, the loaded annotation document and the requests *)

\* the number of segments of each kind that the loaded document holds for
\* episode 0
MaxLoaded == 2

\* episode 0: 10 s, inside a concatenated file; episode 1: 2.5 s, no offsets
\* in the table and its video file missing; episode 2 is not in the table
Datasets ==
    { [fps |-> 30,
       video_key |-> TRUE,
       has_timestamp_cols |-> TRUE,
       rows |-> [e \in {0, 1} |->
                   IF e = 0
                   THEN [length |-> 300, from_timestamp |-> Some(20 * Sec),
                         to_timestamp |-> Some(30 * Sec), video_file |-> TRUE]
                   ELSE [length |-> 75, from_timestamp |-> None,
                         to_timestamp |-> None, video_file |-> FALSE]]] }

RequestEpisodes == {0, 1, 2}

\* episode 0's stored subtasks are 5 s long: two of them reach the episode's end
LoadedSubtask(k) ==
    [start |-> (k - 1) * 5 * Sec, end |-> k * 5 * Sec,
     label |-> IF k % 2 = 1 THEN <<"a">> ELSE <<"b">>]
LoadedHighLevel(k) ==
    [start |-> (k - 1) * 2500 * Ms, end |-> k * 2500 * Ms,
     user_prompt |-> IF k % 2 = 1 THEN <<"a">> ELSE <<"b">>,
     robot_utterance |-> <<"y">>,
     skill |-> <<"s">>, scenario_type |-> <<"v">>, response_type |-> <<"r">>]

LoadedDoc(ns, nh) ==
    LET ep1 == [subtasks |-> <<[LoadedSubtask(1) EXCEPT !.end = 2500 * Ms]>>,
                high_levels |-> <<>>,
                qa_labels |-> <<>>]
        ep0 == [subtasks |-> [k \in 1..ns |-> LoadedSubtask(k)],
                high_levels |-> [k \in 1..nh |-> LoadedHighLevel(k)],
                qa_labels |-> <<[frame_idx |-> 0, type |-> <<"t">>,
                                 question |-> <<"a">>, answer |-> <<"y">>]>>]
    IN  IF ns = 0 /\ nh = 0 THEN [e \in {1} |-> ep1]
        ELSE [e \in {0, 1} |-> IF e = 0 THEN ep0 ELSE ep1]
LoadedDocs == {LoadedDoc(ns, nh) : ns \in 0..MaxLoaded, nh \in 0..MaxLoaded}

SubtaskObjs == { [label |-> <<"a">>], [label |-> <<"b">>], [label |-> <<" ">>],
                 [summary |-> <<"a">>] }
SubtaskOutcomes ==
    { [kind |-> "transcode_fail"], [kind |-> "chat_fail"], [kind |-> "no_json"] }
    \cup { [kind |-> "reply", obj |-> o] : o \in SubtaskObjs }

SubtaskRequests ==
    [episode_index : RequestEpisodes,
     stride_s : {None, Some(5 * Sec)},
     summary_frames : {None},
     max_steps : {None, Some(2)},
     max_segments : {None, Some(2)},
     mode : {"replace", "append"},
     start_time_s : {None, Some(5 * Sec)},
     resume_from_last : BOOLEAN,
     merge_adjacent : BOOLEAN]

---------------------------------------------------------------------------
(* VQA generation: strategy_vqa.py, engine.py generate_fake_vqa *)

\* str.lower() on the letters the model's texts use
LowerChar(c) == CASE c = "A" -> "a" [] c = "B" -> "b" [] OTHER -> c
\* [a-z0-9 ] among the characters the model's texts use
NormKept == {"a", "b", "y", "0", "1", " "}
\* [一-鿿] among the characters the model's texts use
Cjk == {"U4E2D"}

\* re.sub(r"\s+", " ", s)
RECURSIVE CollapseSpace(_)
CollapseSpace(s) ==
    IF s = <<>> THEN <<>>
    ELSE IF Head(s) \in Whitespace
         THEN <<" ">> \o CollapseSpace(LStrip(s))
         ELSE <<Head(s)>> \o CollapseSpace(Tail(s))

\* re.sub(r"[^a-z0-9 ]+", "", s)
RECURSIVE DropOthers(_)
DropOthers(s) ==
    IF s = <<>> THEN <<>>
    ELSE (IF Head(s) \in NormKept THEN <<Head(s)>> ELSE <<>>) \o DropOthers(Tail(s))

_norm_q(s) ==
    LET lower == [i \in 1..Len(s) |-> LowerChar(s[i])]
    IN  DropOthers(Strip(CollapseSpace(lower)))

\* stride_s=1e9 of generate_fake_vqa: a stride beyond every episode (600 s
\* keeps the sums inside machine integers)
HugeStride == 600 * Sec

\* the config defaults of generate_fake_vqa
DefaultVqaStride == 6 * Sec
DefaultVqaWindow == 2 * Sec
\* "vqa", "answer" and "fake_vqa", each written as one character
DefaultTags == [scenario_type |-> <<"v">>, response_type |-> <<"r">>, skill |-> <<"s">>]

\* the decision of AutoVQAGenerator.generate on one window's reply, for the
\* questions already used: "raise", "skip" or "accept"
VqaDecision(outcome, used_q, english) ==
    IF outcome.kind # "reply" THEN "raise"
    ELSE LET obj == outcome.obj
             q   == Strip(Get(obj, "question", <<>>))
             a   == Strip(Get(obj, "answer", <<>>))
         IN  IF Get(obj, "skip", FALSE) THEN "skip"
             ELSE IF q = <<>> \/ a = <<>> THEN "skip"
             ELSE IF english /\ \E i \in 1..Len(q \o a) : (q \o a)[i] \in Cjk THEN "skip"
             ELSE IF _norm_q(q) \in used_q THEN "skip"
             ELSE "accept"

\* the while loop of AutoVQAGenerator.generate from cursor t, the k-th window
\* getting outcomes[k]: the segments, or an exception
RECURSIVE VqaLoop(_, _, _, _, _, _, _)
VqaLoop(timing, t, stride_s, outcomes, used_q, segments, tags) ==
    IF ~(t < timing.duration - Micro) \/ outcomes = <<>>
    THEN [raised |-> FALSE, segments |-> segments]
    ELSE LET outcome  == Head(outcomes)
             seg_end  == Min(timing.duration, t + stride_s)
             decision == VqaDecision(outcome, used_q, TRUE)
             q        == Strip(Get(outcome.obj, "question", <<>>))
             a        == Strip(Get(outcome.obj, "answer", <<>>))
         IN  IF decision = "raise" THEN [raised |-> TRUE, segments |-> <<>>]
             ELSE IF decision = "skip"
                  THEN VqaLoop(timing, t + stride_s, stride_s, Tail(outcomes),
                               used_q, segments, tags)
             ELSE VqaLoop(timing, t + stride_s, stride_s, Tail(outcomes),
                          used_q \cup {_norm_q(q)},
                          Append(segments,
                                 [start |-> Round3(t), end |-> Round3(seg_end),
                                  user_prompt |-> q, robot_utterance |-> a,
                                  scenario_type |-> tags.scenario_type,
                                  response_type |-> tags.response_type,
                                  skill |-> tags.skill]),
                          tags)

\* AutoVQAGenerator.generate: timing and video path, the clamps, the loop
AutoVQAGenerate(ds, ep, stride_s, start_time_s, outcomes, tags) ==
    IF ~TimingFound(ds, ep) \/ ~VideoPathFound(ds, ep)
    THEN [raised |-> TRUE, segments |-> <<>>]
    ELSE LET timing == get_episode_timing(ds, ep)
             stride == Max(stride_s, Ms)
             start  == Max(0, Min(start_time_s, Max(0, timing.duration - Ms)))
         IN  VqaLoop(timing, start, stride, outcomes, {}, <<>>, tags)

\* seg.setdefault(key, value)
SetDefault(d, key, value) == IF key \in DOMAIN d THEN d ELSE Put(d, key, value)

\* the record generate_fake_vqa appends for the step at cursor: the
\* generator's first segment or an empty dict, with the time span and the
\* defaults set
VqaRecord(one, cursor, clip_end, tags) ==
    LET seg  == IF ~one.raised /\ one.segments # <<>> THEN one.segments[1] ELSE <<>>
        seg1 == Put(Put(seg, "start", cursor), "end", clip_end)
        seg2 == SetDefault(seg1, "scenario_type", tags.scenario_type)
        seg3 == SetDefault(seg2, "response_type", tags.response_type)
        seg4 == SetDefault(seg3, "skill", tags.skill)
        seg5 == SetDefault(seg4, "user_prompt", <<>>)
    IN  SetDefault(seg5, "robot_response", <<>>)

VqaStride(r, ds) ==
    IF ~IsNone(r.stride_s) THEN Val(r.stride_s)
    ELSE IF Truthy(r.max_segments)
         THEN Max(Ms, Duration(ds, r.episode_index)) \div Max(Val(r.max_segments), 1)
         ELSE DefaultVqaStride

CeilDiv(a, b) == (a + b - 1) \div b

\* the number of passes the loop of generate_fake_vqa is set up for
VqaSteps(r, duration_s, cursor, stride_s) ==
    LET s0 == IF duration_s > cursor
              THEN CeilDiv(Max(duration_s - cursor, 0), Max(stride_s, Micro)) ELSE 0
        s1 == IF ~IsNone(r.max_steps) THEN Min(s0, Val(r.max_steps)) ELSE s0
        s2 == IF Truthy(r.max_segments) THEN Min(s1, Val(r.max_segments)) ELSE s1
    IN  Max(s2, 0)

\* the mode of the persist step with the request's own mode, resume or not
EffectiveMode_Requested(r) == r.mode

\* the mode of the persist step: resuming always appends
EffectiveMode(r) == IF r.resume_from_last THEN "append" ELSE r.mode

PersistHighLevels(r, old, segments) ==
    IF EffectiveMode(r) = "replace" THEN segments ELSE old \o segments

\* the end of generate_fake_vqa: persist, save, return
VqaFinish(r, anns, l) ==
    LET ep    == r.episode_index
        anns2 == get_episode_annotations(anns, ep)
        anns3 == [anns2 EXCEPT ![ep].high_levels = PersistHighLevels(r, @, l.segments)]
    IN  /\ annotations' = anns3
        /\ saved' = _save_annotations(anns3)
        /\ ret' = Returned("fake_vqa", l.segments)
        /\ loc' = l
        /\ pc' = "done"

\* generate_fake_vqa up to its first step: parameters, resume point, episode
\* timing, cursor and step count
VqaBegin(r) ==
    /\ pc = "idle"
    /\ req' = r
    /\ UNCHANGED <<dataset, loaded>>
    /\ LET ep == r.episode_index IN
       IF IsNone(r.stride_s) /\ Truthy(r.max_segments) /\ ~TimingFound(dataset, ep)
       THEN GenRaise("fake_vqa", annotations, NoLocals, "not_found")
       ELSE
       LET anns1 == IF ReadsAnnotations(r) THEN get_episode_annotations(annotations, ep)
                    ELSE annotations
           start_time_s == ResumeStart(r, IF ReadsAnnotations(r) THEN anns1[ep].high_levels
                                          ELSE <<>>)
       IN
       IF ~TimingFound(dataset, ep)
       THEN GenRaise("fake_vqa", anns1, NoLocals, "not_found")
       ELSE
       LET timing     == get_episode_timing(dataset, ep)
           duration_s == Max(Ms, timing.duration)
           stride_s   == VqaStride(r, dataset)
           cursor     == Min(Max(IF IsNone(start_time_s) THEN 0 ELSE Val(start_time_s), 0),
                             duration_s)
           l == [cursor |-> cursor,
                 i |-> 0,
                 steps |-> VqaSteps(r, duration_s, cursor, stride_s),
                 segments |-> <<>>,
                 windows |-> <<>>,
                 outcome |-> NoOutcome,
                 stride_s |-> stride_s,
                 window_s |-> IF IsNone(r.window_s) THEN DefaultVqaWindow
                              ELSE Val(r.window_s),
                 start_time_s |-> start_time_s,
                 duration_s |-> duration_s,
                 timing |-> timing]
       IN  IF l.steps > 0
           THEN /\ pc' = "vqa"
                /\ loc' = l
                /\ annotations' = anns1
                /\ UNCHANGED <<saved, ret>>
           ELSE VqaFinish(r, anns1, l)

\* one pass of the loop of generate_fake_vqa, and with the last pass the
\* rest of the call
VqaStep(outcome) ==
    /\ pc = "vqa"
    /\ UNCHANGED <<dataset, loaded, req>>
    /\ LET clip_end == Min(loc.cursor + loc.window_s, loc.duration_s)
           one == AutoVQAGenerate(dataset, req.episode_index, HugeStride,
                                  loc.cursor, <<outcome>>, DefaultTags)
           seg == VqaRecord(one, loc.cursor, clip_end, DefaultTags)
           l1  == [loc EXCEPT !.outcome = outcome,
                              !.windows = Append(@, [cursor |-> loc.cursor,
                                                     clip_end |-> clip_end]),
                              !.segments = Append(@, seg),
                              !.cursor = @ + loc.stride_s,
                              !.i = @ + 1]
       IN  IF l1.i < l1.steps /\ ~(l1.cursor >= l1.duration_s - Micro)
           THEN /\ loc' = l1
                /\ UNCHANGED <<annotations, saved, ret, pc>>
           ELSE VqaFinish(req, annotations, l1)

VqaObjs ==
    { [skip |-> TRUE],
      [question |-> <<"A", "?">>, answer |-> <<"y">>],
      [question |-> <<"a">>, answer |-> <<"y">>],
      [question |-> <<"a">>, answer |-> <<" ">>],
      [question |-> <<"U4E2D">>, answer |-> <<"y">>],
      [answer |-> <<"y">>] }
VqaOutcomes ==
    { [kind |-> "transcode_fail"], [kind |-> "chat_fail"], [kind |-> "no_json"] }
    \cup { [kind |-> "reply", obj |-> o] : o \in VqaObjs }

VqaRequests ==
    [episode_index : RequestEpisodes,
     stride_s : {None, Some(5 * Sec), Some(5 * Sec - 1)},
     window_s : {None, Some(Sec)},
     max_steps : {None, Some(1)},
     max_segments : {None, Some(2)},
     mode : {"replace", "append"},
     start_time_s : {None, Some(5 * Sec)},
     resume_from_last : BOOLEAN]

Init ==
    /\ dataset \in Datasets
    /\ loaded \in LoadedDocs
    /\ annotations = loaded
    /\ saved = loaded
    /\ pc = "idle"
    /\ req = <<>>
    /\ loc = NoLocals
    /\ ret = NoReturn
    /\ AssignIdle
    /\ MergeIdle
    /\ ExportIdle
    /\ FnIdle
    /\ CacheIdle
    /\ RaceIdle

Next ==
    \/ \E r \in SubtaskRequests, summary_ok \in BOOLEAN :
           SubtasksBegin(r, summary_ok) /\ UNCHANGED <<asgVars, mrgVars, expVars, fnVars, cchVars, rceVars>>
    \/ \E outcome \in SubtaskOutcomes :
           SubtasksWindow(outcome) /\ UNCHANGED <<asgVars, mrgVars, expVars, fnVars, cchVars, rceVars>>
    \/ \E r \in VqaRequests :
           VqaBegin(r) /\ UNCHANGED <<asgVars, mrgVars, expVars, fnVars, cchVars, rceVars>>
    \/ \E outcome \in VqaOutcomes :
           VqaStep(outcome) /\ UNCHANGED <<asgVars, mrgVars, expVars, fnVars, cchVars, rceVars>>

Spec == Init /\ [][Next]_vars

---------------------------------------------------------------------------
(* Claims about generate_subtasks *)

\* the call has returned normally / has ended, for the operation op
DoneOk(op) == pc = "done" /\ ret.op = op /\ ret.status = "ok"
\* the episode's annotations before the call
Before(ep) == Get(loaded, ep, EpisodeAnnotations)

\* C1: a successful generate_subtasks with resume_from_last=true and
\* mode="replace" leaves the episode's subtask list as the old list followed
\* by the new batch.
C1_ResumeReplaceAppends ==
    (DoneOk("subtasks") /\ req.resume_from_last /\ req.mode = "replace") =>
        annotations[req.episode_index].subtasks
            = Before(req.episode_index).subtasks \o ret.segments

\* episode 0 lasts 10 s: stride 5 s, step cap 2, start 0, the other options
\* at their defaults
Scenario10s ==
    /\ req.episode_index = 0
    /\ req.stride_s = Some(5 * Sec)
    /\ req.max_steps = Some(2)
    /\ IsNone(req.start_time_s) /\ ~req.resume_from_last
    /\ req.merge_adjacent

Span(s) == <<s.start, s.end>>

\* C8 as stated: in the 10 s scenario the call returns exactly 2 segments
\* covering [0,5) and [5,10), whatever the labels.
C8_AlwaysTwoSegments ==
    (DoneOk("subtasks") /\ Scenario10s) =>
        /\ Len(ret.segments) = 2
        /\ Span(ret.segments[1]) = <<0, 5 * Sec>>
        /\ Span(ret.segments[2]) = <<5 * Sec, 10 * Sec>>

\* the windows whose label differs from the label of the window before
LabelChanges == {k \in 2..Len(loc.segments) :
                    loc.segments[k].label # loc.segments[k - 1].label}

\* C8 (amended): the generator makes one segment per processed window
\* [t, min(duration, t + stride)], the windows following each other at the
\* stride, at most max_steps of them; the call returns them as they are when
\* merge_adjacent is off, and with each run of equal labels joined into one
\* segment when it is on (the default). In the 10 s scenario that is the 2
\* segments [0,5) and [5,10) when the two labels differ and the single
\* segment [0,10) when they are equal.
C8_SegmentsPerWindow ==
    DoneOk("subtasks") =>
        /\ Len(loc.windows) <= loc.max_steps
        /\ Len(loc.segments) = Len(loc.windows)
        /\ \A k \in 1..Len(loc.windows) :
               LET w == loc.windows[k] IN
               /\ w.seg_start = loc.windows[1].seg_start + (k - 1) * loc.stride_s
               /\ w.seg_end = Min(Duration(dataset, req.episode_index),
                                  w.seg_start + loc.stride_s)
               /\ Span(loc.segments[k]) = <<Round3(w.seg_start), Round3(w.seg_end)>>
        /\ ~req.merge_adjacent => ret.segments = loc.segments
        /\ (req.merge_adjacent /\ loc.segments # <<>>) =>
               /\ Len(ret.segments) = 1 + Cardinality(LabelChanges)
               /\ ret.segments[1].start = loc.segments[1].start
               /\ ret.segments[Len(ret.segments)].end
                      = loc.segments[Len(loc.segments)].end
        /\ Scenario10s =>
               /\ Len(loc.segments) = 2
               /\ IF loc.segments[1].label # loc.segments[2].label
                  THEN /\ Len(ret.segments) = 2
                       /\ Span(ret.segments[1]) = <<0, 5 * Sec>>
                       /\ Span(ret.segments[2]) = <<5 * Sec, 10 * Sec>>
                  ELSE /\ Len(ret.segments) = 1
                       /\ Span(ret.segments[1]) = <<0, 10 * Sec>>

\* the 10 s scenario with the same label for both windows
C8_Witness ==
    /\ DoneOk("subtasks") /\ Scenario10s
    /\ Len(loc.windows) = 2
    /\ ret.segments = <<[start |-> 0, end |-> 10 * Sec, label |-> <<"a">>]>>

\* the last window's transcoder failed, its reply held no object, or its
\* label was empty
WindowFailed ==
    \/ loc.outcome.kind \in {"transcode_fail", "no_json"}
    \/ loc.outcome.kind = "reply" /\ Strip(Get(loc.outcome.obj, "label", <<>>)) = <<>>

\* C10: when a window fails the whole call fails: no segment is returned and
\* the subtask lists in memory and the saved document are as before the call.
C10_WindowFailureFailsCall ==
    (pc = "done" /\ ret.op = "subtasks" /\ WindowFailed) =>
        /\ ret.status = "error"
        /\ ret.segments = <<>>
        /\ saved = loaded
        /\ DOMAIN loaded \subseteq DOMAIN annotations
        /\ \A e \in DOMAIN annotations :
               annotations[e].subtasks = Before(e).subtasks

\* the second window's reply holds no object, after a first window that gave
\* a label, in a replace call on an episode that has subtasks
C10_Witness ==
    /\ pc = "done" /\ ret.op = "subtasks" /\ ret.status = "error"
    /\ loc.outcome.kind = "no_json"
    /\ Len(loc.segments) = 1
    /\ req.mode = "replace"
    /\ Before(req.episode_index).subtasks # <<>>

\* a resuming generate_subtasks call without a start override, on an episode
\* that has stored subtasks, that got as far as its window loop
ResumedSubtasks ==
    /\ pc \in {"subtasks", "done"}
    /\ req # <<>>
    /\ pc = "done" => ret.op = "subtasks"
    /\ "t" \in DOMAIN loc
    /\ req.resume_from_last /\ IsNone(req.start_time_s)
    /\ Before(req.episode_index).subtasks # <<>>
    /\ VideoPathFound(dataset, req.episode_index)
    /\ pc = "done" /\ ret.status = "error" => ret.error = "window"
LastEnd == LET list == Before(req.episode_index).subtasks IN list[Len(list)].end

\* C19: a resuming generate_subtasks call without a start override begins its
\* first window exactly at the end of the last stored subtask; when that end
\* is the episode's duration it processes no window, issues no inference
\* request and returns no segment.
C19_ResumeAtLastEnd ==
    ResumedSubtasks =>
        IF LastEnd = loc.duration
        THEN /\ pc = "done"
             /\ loc.windows = <<>>
             /\ ret.segments = <<>>
        ELSE IF loc.windows = <<>> THEN loc.t = LastEnd
             ELSE loc.windows[1].seg_start = LastEnd

---------------------------------------------------------------------------
(* Claims about generate_fake_vqa *)

\* C2: whenever a generate_fake_vqa request has resume_from_last set, the new
\* batch is appended to the episode's existing high_levels list, the old list
\* staying as a prefix, whatever mode the request carries.
C2_ResumeAlwaysAppends ==
    (DoneOk("fake_vqa") /\ req.resume_from_last) =>
        annotations[req.episode_index].high_levels
            = Before(req.episode_index).high_levels \o ret.segments

\* a resuming call with mode "replace" on an episode that already has
\* high-level records, returning a new batch
C2_Witness ==
    /\ DoneOk("fake_vqa")
    /\ req.resume_from_last
    /\ req.mode = "replace"
    /\ Before(req.episode_index).high_levels # <<>>
    /\ ret.segments # <<>>
    /\ saved = annotations

\* C3: within one generate_fake_vqa run, two windows whose questions are
\* identical after normalization yield at most one retained pair with a
\* non-empty question.
C3_DedupWithinRun ==
    DoneOk("fake_vqa") =>
        \A i, j \in 1..Len(ret.segments) :
            (/\ i < j
             /\ ret.segments[i].user_prompt # <<>>
             /\ ret.segments[j].user_prompt # <<>>)
            => _norm_q(ret.segments[i].user_prompt)
                   # _norm_q(ret.segments[j].user_prompt)

\* the episode of the request is unknown, or its video file is missing
NotFound ==
    \/ ~TimingFound(dataset, req.episode_index)
    \/ ~VideoPathFound(dataset, req.episode_index)

\* C11: a not-found condition fails the whole generate_fake_vqa call: the
\* call returns an error and no record, and the high_levels lists in memory
\* and the saved document are as before the call.
C11_NotFoundFailsCall ==
    (pc = "done" /\ ret.op = "fake_vqa" /\ NotFound) =>
        /\ ret.status = "error"
        /\ ret.segments = <<>>
        /\ saved = loaded
        /\ \A e \in DOMAIN annotations :
               annotations[e].high_levels = Before(e).high_levels

\* the cursor of the first step: the start time clamped into the episode
FirstCursor == Min(Max(IF IsNone(loc.start_time_s) THEN 0 ELSE Val(loc.start_time_s), 0),
                   loc.duration_s)

\* min(ceil((duration - cursor)/stride), max_steps if given, max_segments if
\* given)
ClaimedSteps ==
    LET n0 == CeilDiv(loc.duration_s - FirstCursor, loc.stride_s)
        n1 == IF IsNone(req.max_steps) THEN n0 ELSE Min(n0, Val(req.max_steps))
    IN  IF IsNone(req.max_segments) THEN n1 ELSE Min(n1, Val(req.max_segments))

\* the answer text of a record, under the key the record carries it
AnswerOf(seg) == Get(seg, "robot_utterance", Get(seg, "robot_response", <<"?">>))

\* the step's attempt gave no pair
NoPair(k) == "robot_utterance" \notin DOMAIN ret.segments[k]

\* one record per step made, each starting at its step's cursor, and an empty
\* question and answer where the attempt gave no pair
OneRecordPerStepMade ==
    /\ \A k \in 1..Len(ret.segments) :
           /\ ret.segments[k].start = FirstCursor + (k - 1) * loc.stride_s
           /\ NoPair(k) => /\ ret.segments[k].user_prompt = <<>>
                           /\ AnswerOf(ret.segments[k]) = <<>>
    /\ Len(ret.segments) <= ClaimedSteps

\* C13: generate_fake_vqa returns exactly one record per step, the step count
\* being min(ceil((duration - cursor)/stride), max_steps, max_segments); the
\* record of a failed or skipped step is a placeholder starting at the step's
\* cursor with an empty question and answer.
C13_OneRecordPerStep ==
    DoneOk("fake_vqa") =>
        /\ Len(ret.segments) = ClaimedSteps
        /\ OneRecordPerStepMade

\* C20: every record generate_fake_vqa appends for the step at cursor c has
\* start = c and end = c + stride, capped at the episode's duration, whatever
\* the window length is.
C20_RecordSpansStride ==
    DoneOk("fake_vqa") =>
        \A k \in 1..Len(ret.segments) :
            /\ ret.segments[k].start = loc.windows[k].cursor
            /\ ret.segments[k].end =
                   Min(loc.windows[k].cursor + loc.stride_s, loc.duration_s)

\* C21: every record that generate_fake_vqa returns and stores in the
\* episode's high_levels list, placeholders included, has the fields start,
\* end, user_prompt and robot_utterance.
C21_RecordFields ==
    DoneOk("fake_vqa") =>
        LET stored == annotations[req.episode_index].high_levels
            batch  == SubSeq(stored, Len(stored) - Len(ret.segments) + 1, Len(stored))
        IN  /\ batch = ret.segments
            /\ \A k \in 1..Len(batch) :
                   {"start", "end", "user_prompt", "robot_utterance"} \subseteq DOMAIN batch[k]

---------------------------------------------------------------------------
(* Claims about the persist step of both generation calls *)

TargetOf(op) == IF op = "subtasks" THEN "subtasks" ELSE "high_levels"

\* C28: after a successful generation call for episode e, in replace mode
\* (without resume) the target sequence is exactly the returned batch and in
\* append mode it is the old sequence followed by the batch; the other two
\* sequences of e and every sequence of every other episode are unchanged,
\* and the saved document is the annotation state.
C28_PersistEffect ==
    (pc = "done" /\ ret.status = "ok") =>
        LET e      == req.episode_index
            target == TargetOf(ret.op)
            old    == Before(e)
            new    == annotations[e]
        IN  /\ (req.mode = "replace" /\ ~req.resume_from_last) => new[target] = ret.segments
            /\ req.mode = "append" => new[target] = old[target] \o ret.segments
            /\ \A f \in {"subtasks", "high_levels", "qa_labels"} \ {target} :
                   new[f] = old[f]
            /\ DOMAIN annotations = DOMAIN loaded \cup {e}
            /\ \A x \in DOMAIN annotations \ {e} : annotations[x] = loaded[x]
            /\ saved = annotations

\* a replace call of generate_subtasks that returned a batch for an episode
\* that had subtasks and high-level records, next to another episode that
\* has subtasks
C28_Witness ==
    /\ DoneOk("subtasks")
    /\ req.mode = "replace" /\ ~req.resume_from_last
    /\ ret.segments # <<>>
    /\ Before(req.episode_index).subtasks # <<>>
    /\ Before(req.episode_index).high_levels # <<>>
    /\ annotations[req.episode_index].subtasks = ret.segments
    /\ \E x \in DOMAIN loaded \ {req.episode_index} : loaded[x].subtasks # <<>>

---------------------------------------------------------------------------
(* AutoVQAGenerator.generate called on its own, window after window *)

MaxVqaWindows == 3

InitVqaGen ==
    /\ fnIn \in [dataset : Datasets,
                 episode_index : {0},
                 stride_s : {4 * Sec, 5 * Sec},
                 start_time_s : {0, 5 * Sec},
                 outcomes : [1..MaxVqaWindows -> VqaOutcomes]]
    /\ fnDone = FALSE
    /\ fnOut = <<>>
    /\ AssignIdle
    /\ MergeIdle
    /\ GenIdle
    /\ ExportIdle
    /\ CacheIdle
    /\ RaceIdle

VqaGenerate ==
    /\ ~fnDone
    /\ fnDone' = TRUE
    /\ fnOut' = AutoVQAGenerate(fnIn.dataset, fnIn.episode_index, fnIn.stride_s,
                                fnIn.start_time_s, fnIn.outcomes, DefaultTags)
    /\ UNCHANGED <<fnIn, asgVars, mrgVars, genVars, expVars, cchVars, rceVars>>

NextVqaGen == VqaGenerate
SpecVqaGen == InitVqaGen /\ [][NextVqaGen]_vars

\* the windows the loop reaches when no window raises
VqaWindowCount ==
    Cardinality({k \in 1..MaxVqaWindows :
        fnIn.start_time_s + (k - 1) * fnIn.stride_s
            < Duration(fnIn.dataset, fnIn.episode_index) - Micro})

\* some window's reply is empty or holds no object, and no window fails in
\* another way
MalformedReplyOnly ==
    /\ \E k \in 1..VqaWindowCount : fnIn.outcomes[k].kind = "no_json"
    /\ \A k \in 1..VqaWindowCount : fnIn.outcomes[k].kind \in {"no_json", "reply"}

\* the outcomes with every malformed reply replaced by an explicit skip
AsSkips(outcomes) ==
    [k \in 1..Len(outcomes) |->
        IF outcomes[k].kind = "no_json"
        THEN [kind |-> "reply", obj |-> [skip |-> TRUE]]
        ELSE outcomes[k]]

\* C12: in AutoVQAGenerator.generate a window whose reply is empty or holds
\* no parseable object counts as a skip: the call does not fail and returns
\* what it returns when that window's reply is an explicit skip (the pairs of
\* the earlier and of the later windows).
C12_MalformedReplyIsSkip ==
    (fnDone /\ MalformedReplyOnly) =>
        /\ ~fnOut.raised
        /\ fnOut = AutoVQAGenerate(fnIn.dataset, fnIn.episode_index, fnIn.stride_s,
                                   fnIn.start_time_s, AsSkips(fnIn.outcomes),
                                   DefaultTags)

---------------------------------------------------------------------------
(* Media cache: sampler.py FrameSampler *)

\* f"{x:.6f}": the nearest microsecond
Round6(x) == ((2 * x + Micro) \div (2 * Micro)) * Micro

\* FrameSampler.image_max_side
ImageMaxSide == 768

\* the file name: sha1 of the formatted arguments, written as the tuple of
\* what is formatted
_frame_path(video_path, ts_sec) ==
    <<"frame", video_path, Round6(ts_sec), ImageMaxSide>>

\* fps is in thousandths of a frame per second, which is what {fps:.3f} keeps
_clip_path(video_path, start_sec, end_sec, fps) ==
    <<"clip", video_path, Round3(start_sec), Round3(end_sec), fps, ImageMaxSide>>

\* extract_clip's end_sec and fps after its two clamps
ClipEnd(a) == IF a.end_sec <= a.start_sec THEN a.start_sec + 50 * Ms ELSE a.end_sec
ClipFps(a) == IF a.fps <= 0 THEN 1000 ELSE a.fps

\* out_path of a call
OutPath(a) ==
    IF a.op = "frame" THEN _frame_path(a.video_path, a.ts_sec)
    ELSE _clip_path(a.video_path, a.start_sec, ClipEnd(a), ClipFps(a))

\* the bytes a complete run of cmd writes: they depend on the arguments as
\* they are put on the command line, unrounded
FfmpegOutput(a) ==
    IF a.op = "frame" THEN <<"jpeg", a.video_path, a.ts_sec, ImageMaxSide>>
    ELSE <<"mp4", a.video_path, a.start_sec, ClipEnd(a), ClipFps(a), ImageMaxSide>>

Threads == {1, 2}
MaxCacheCalls == 2

FrameArgs(ts) == [op |-> "frame", video_path |-> "v.mp4", ts_sec |-> ts]
ClipArgs(s, e, f) ==
    [op |-> "clip", video_path |-> "v.mp4", start_sec |-> s, end_sec |-> e, fps |-> f]
CacheArgs ==
    { FrameArgs(Sec), FrameArgs(Sec + 1),
      ClipArgs(Sec, 2 * Sec, 2000), ClipArgs(Sec + 100 * Micro, 2 * Sec, 2000),
      ClipArgs(2 * Sec, Sec, 0) }
CachePaths == {OutPath(a) : a \in CacheArgs}

NoFile == [size |-> "absent", bytes |-> <<>>, writers |-> {}]
NoResult == [status |-> "none"]
NoCall == [pc |-> "idle", args |-> <<>>, stage |-> "none", ran |-> FALSE,
           later |-> FALSE, result |-> NoResult, n |-> 0]

\* out_path.exists() and out_path.stat().st_size > 0, with no cache at all
CacheHit_Never(f) == FALSE

\* out_path.exists() and out_path.stat().st_size > 0
CacheHit(f) == f.size \in {"part", "full"}

\* what a call returns: the path, and the file as it is at that moment
Accepted(path, f) ==
    [status |-> "ok", path |-> path, size |-> f.size, bytes |-> f.bytes,
     writers |-> f.writers]

NoteFirst(a, result) ==
    IF firstOk[a] = None /\ result.status = "ok"
    THEN [firstOk EXCEPT ![a] = Some(result)] ELSE firstOk

InitCache ==
    /\ cache = [path \in CachePaths |-> NoFile]
    /\ calls = [p \in Threads |-> NoCall]
    /\ firstOk = [a \in CacheArgs |-> None]
    /\ AssignIdle
    /\ MergeIdle
    /\ GenIdle
    /\ ExportIdle
    /\ FnIdle
    /\ RaceIdle

\* extract_frame / extract_clip up to the cache test: a hit returns, a miss
\* goes on to run the transcoder
ExtractBegin(p, a) ==
    /\ calls[p].pc = "idle"
    /\ calls[p].n < MaxCacheCalls
    /\ LET path == OutPath(a)
           f    == cache[path]
           c    == [calls[p] EXCEPT !.args = a, !.n = @ + 1,
                                    !.later = firstOk[a] # None]
       IN  IF CacheHit(f)
           THEN /\ calls' = [calls EXCEPT ![p] =
                                [c EXCEPT !.pc = "done", !.ran = FALSE,
                                          !.result = Accepted(path, f)]]
                /\ firstOk' = NoteFirst(a, Accepted(path, f))
           ELSE /\ calls' = [calls EXCEPT ![p] =
                                [c EXCEPT !.pc = "ffmpeg", !.ran = TRUE,
                                          !.stage = "start"]]
                /\ UNCHANGED firstOk
    /\ UNCHANGED cache

\* the transcoder opens out_path for writing (-y): the file exists, empty
FfmpegOpen(p) ==
    /\ calls[p].pc = "ffmpeg" /\ calls[p].stage = "start"
    /\ cache' = [cache EXCEPT ![OutPath(calls[p].args)] =
                    [size |-> "zero", bytes |-> <<>>, writers |-> @.writers \cup {p}]]
    /\ calls' = [calls EXCEPT ![p].stage = "open"]
    /\ UNCHANGED firstOk

\* the transcoder has written a part of its output to out_path
FfmpegWrite(p) ==
    /\ calls[p].pc = "ffmpeg" /\ calls[p].stage = "open"
    /\ LET path == OutPath(calls[p].args)
           f    == cache[path]
       IN  cache' = [cache EXCEPT ![path] =
                        [f EXCEPT !.size = "part",
                                  !.bytes = IF f.writers = {p} /\ f.bytes = <<>>
                                            THEN FfmpegOutput(calls[p].args)
                                            ELSE <<"mixed">>]]
    /\ calls' = [calls EXCEPT ![p].stage = "writing"]
    /\ UNCHANGED firstOk

\* the transcoder writes the rest and exits with status 0
FfmpegExit0(p) ==
    /\ calls[p].pc = "ffmpeg" /\ calls[p].stage = "writing"
    /\ LET path == OutPath(calls[p].args)
           f    == cache[path]
           own  == f.writers = {p} /\ f.bytes = FfmpegOutput(calls[p].args)
       IN  cache' = [cache EXCEPT ![path] =
                        [size |-> IF own THEN "full" ELSE "part",
                         bytes |-> IF own THEN f.bytes ELSE <<"mixed">>,
                         writers |-> f.writers \ {p}]]
    /\ calls' = [calls EXCEPT ![p].pc = "verify", ![p].stage = "none"]
    /\ UNCHANGED firstOk

\* the transcoder exits with a non-zero status (or is killed) at any point:
\* subprocess.run raises, extract_* raises RuntimeError, out_path stays as it is
FfmpegFail(p) ==
    /\ calls[p].pc = "ffmpeg"
    /\ cache' = [cache EXCEPT ![OutPath(calls[p].args)].writers = @ \ {p}]
    /\ calls' = [calls EXCEPT ![p].pc = "done", ![p].stage = "none",
                              ![p].result = [status |-> "error"]]
    /\ UNCHANGED firstOk

\* the test after the transcoder run, and the return
ExtractVerify(p) ==
    /\ calls[p].pc = "verify"
    /\ LET path   == OutPath(calls[p].args)
           f      == cache[path]
           result == IF f.size \in {"absent", "zero"} THEN [status |-> "error"]
                     ELSE Accepted(path, f)
       IN  /\ calls' = [calls EXCEPT ![p].pc = "done", ![p].result = result]
           /\ firstOk' = NoteFirst(calls[p].args, result)
    /\ UNCHANGED cache

\* the caller goes on to its next call
ExtractReturn(p) ==
    /\ calls[p].pc = "done"
    /\ calls' = [calls EXCEPT ![p] = [NoCall EXCEPT !.n = calls[p].n]]
    /\ UNCHANGED <<cache, firstOk>>

OtherVarsOfCache == <<asgVars, mrgVars, genVars, expVars, fnVars, rceVars>>

\* threads calling the sampler at the same time
NextCache ==
    \/ \E p \in Threads, a \in CacheArgs :
           ExtractBegin(p, a) /\ UNCHANGED OtherVarsOfCache
    \/ \E p \in Threads : FfmpegOpen(p) /\ UNCHANGED OtherVarsOfCache
    \/ \E p \in Threads : FfmpegWrite(p) /\ UNCHANGED OtherVarsOfCache
    \/ \E p \in Threads : FfmpegExit0(p) /\ UNCHANGED OtherVarsOfCache
    \/ \E p \in Threads : FfmpegFail(p) /\ UNCHANGED OtherVarsOfCache
    \/ \E p \in Threads : ExtractVerify(p) /\ UNCHANGED OtherVarsOfCache
    \/ \E p \in Threads : ExtractReturn(p) /\ UNCHANGED OtherVarsOfCache
SpecCache == InitCache /\ [][NextCache]_vars

\* one call at a time, as in the synchronous pipeline
NoOtherCall(p) == \A q \in Threads \ {p} : calls[q].pc = "idle"
NextCacheSeq ==
    \/ \E p \in Threads, a \in CacheArgs :
           NoOtherCall(p) /\ ExtractBegin(p, a) /\ UNCHANGED OtherVarsOfCache
    \/ \E p \in Threads :
           NoOtherCall(p) /\ FfmpegOpen(p) /\ UNCHANGED OtherVarsOfCache
    \/ \E p \in Threads :
           NoOtherCall(p) /\ FfmpegWrite(p) /\ UNCHANGED OtherVarsOfCache
    \/ \E p \in Threads :
           NoOtherCall(p) /\ FfmpegExit0(p) /\ UNCHANGED OtherVarsOfCache
    \/ \E p \in Threads :
           NoOtherCall(p) /\ FfmpegFail(p) /\ UNCHANGED OtherVarsOfCache
    \/ \E p \in Threads :
           NoOtherCall(p) /\ ExtractVerify(p) /\ UNCHANGED OtherVarsOfCache
    \/ \E p \in Threads :
           NoOtherCall(p) /\ ExtractReturn(p) /\ UNCHANGED OtherVarsOfCache
SpecCacheSeq == InitCache /\ [][NextCacheSeq]_vars

---------------------------------------------------------------------------
(* Claims about the media cache *)

\* C14: after a first successful extract_frame / extract_clip call, every
\* later call with identical arguments, whatever other calls lie in between,
\* returns the same cache file with the same bytes and does not run the
\* transcoder.
C14_Idempotent ==
    \A p \in Threads :
        (calls[p].pc = "done" /\ calls[p].later) =>
            LET first == Val(firstOk[calls[p].args]) IN
            /\ ~calls[p].ran
            /\ calls[p].result.status = "ok"
            /\ calls[p].result.path = first.path
            /\ calls[p].result.bytes = first.bytes
            /\ calls[p].result.size = first.size

\* a repeated clip call after its first success, with a frame made in between
C14_Witness ==
    \E p \in Threads :
        /\ calls[p].pc = "done" /\ calls[p].later
        /\ calls[p].args = ClipArgs(Sec, 2 * Sec, 2000)
        /\ calls[p].result.size = "full"
        /\ cache[OutPath(FrameArgs(Sec))].size = "full"
        /\ \E q \in Threads \ {p} : calls[q].n = MaxCacheCalls

\* C15: a thread that finds a cache entry while another thread's transcoder
\* run is writing it never accepts a partially written file as valid.
C15_ReaderNeverAcceptsPartial ==
    \A p \in Threads :
        (/\ calls[p].pc = "done" /\ ~calls[p].ran
         /\ calls[p].result.status = "ok"
         /\ calls[p].result.writers # {})
        => calls[p].result.size = "full"

\* C30: every cache file that extract_frame / extract_clip accepts as a hit
\* is the complete output of a transcoder run that exited with status zero;
\* after a run that exits non-zero or is interrupted, a later call with the
\* same arguments does not return the leftover file but runs the transcoder
\* again.
C30_HitIsCompleteOutput ==
    \A p \in Threads :
        (calls[p].pc = "done" /\ ~calls[p].ran /\ calls[p].result.status = "ok")
        => calls[p].result.size = "full"

---------------------------------------------------------------------------
(* get_episode_timing applied to metadata tables of every kind *)

TimingRows ==
    [length : {75, 300},
     from_timestamp : {None, Some(0), Some(20 * Sec)},
     to_timestamp : {None, Some(2500 * Ms), Some(30 * Sec)},
     video_file : {TRUE}]
TimingDatasets ==
    [fps : {30}, video_key : BOOLEAN, has_timestamp_cols : BOOLEAN,
     rows : [{0, 1} -> TimingRows]]

InitTiming ==
    /\ fnIn \in [dataset : TimingDatasets, episode_index : RequestEpisodes]
    /\ fnDone = FALSE
    /\ fnOut = <<>>
    /\ AssignIdle
    /\ MergeIdle
    /\ GenIdle
    /\ ExportIdle
    /\ CacheIdle
    /\ RaceIdle

GetEpisodeTiming ==
    /\ ~fnDone
    /\ fnDone' = TRUE
    /\ fnOut' = IF TimingFound(fnIn.dataset, fnIn.episode_index)
                THEN [raised |-> FALSE,
                      timing |-> get_episode_timing(fnIn.dataset, fnIn.episode_index)]
                ELSE [raised |-> TRUE]
    /\ UNCHANGED <<fnIn, asgVars, mrgVars, genVars, expVars, cchVars, rceVars>>

NextTiming == GetEpisodeTiming
SpecTiming == InitTiming /\ [][NextTiming]_vars

\* the row of the requested episode carries both timestamps for the video key
ExplicitOffsets ==
    LET ds == fnIn.dataset  row == ds.rows[fnIn.episode_index]
    IN  /\ ds.video_key /\ ds.has_timestamp_cols
        /\ ~IsNone(row.from_timestamp) /\ ~IsNone(row.to_timestamp)

\* the tables that differ from the given one in the other episodes' rows only
SameExceptOthers ==
    {ds \in TimingDatasets :
        /\ ds.video_key = fnIn.dataset.video_key
        /\ ds.has_timestamp_cols = fnIn.dataset.has_timestamp_cols
        /\ ds.rows[fnIn.episode_index] = fnIn.dataset.rows[fnIn.episode_index]}

\* C16: with both timestamps present for the video key the episode's video
\* span is [from, to]; with a null timestamp or without the columns it is
\* [0, length/fps]; the result does not depend on the other episodes' rows.
C16_TimingPerEpisode ==
    (fnDone /\ ~fnOut.raised) =>
        LET ds  == fnIn.dataset
            row == ds.rows[fnIn.episode_index]
            tm  == fnOut.timing
        IN  /\ tm.duration * ds.fps = row.length * Sec
            /\ ExplicitOffsets =>
                   /\ tm.video_start_time = Val(row.from_timestamp)
                   /\ tm.video_end_time = Val(row.to_timestamp)
                   /\ tm.video_end_time - tm.video_start_time
                          = Val(row.to_timestamp) - Val(row.from_timestamp)
            /\ ~ExplicitOffsets =>
                   /\ tm.video_start_time = 0
                   /\ tm.video_end_time = tm.duration
            /\ \A other \in SameExceptOthers :
                   get_episode_timing(other, fnIn.episode_index) = tm

\* a table that mixes both kinds: episode 0 has offsets, episode 1, the one
\* asked for, has a null timestamp
C16_Witness ==
    /\ fnDone /\ ~fnOut.raised
    /\ fnIn.episode_index = 1
    /\ fnIn.dataset.video_key /\ fnIn.dataset.has_timestamp_cols
    /\ fnIn.dataset.rows[0].from_timestamp = Some(20 * Sec)
    /\ fnIn.dataset.rows[0].to_timestamp = Some(30 * Sec)
    /\ fnIn.dataset.rows[1].from_timestamp = Some(0)
    /\ IsNone(fnIn.dataset.rows[1].to_timestamp)
    /\ fnOut.timing.video_start_time = 0
    /\ fnOut.timing.video_end_time = 2500 * Ms

---------------------------------------------------------------------------
(* Structured-output extraction: json_parse.py *)

\* a text is a sequence of tokens: "{" "}" "[" "]" ":" "," the double quote,
\* the code fence, "json", a letter and a blank
\* the double quote is written '
Quote == "'"
\* three backquotes are written ~~~
Fence == "~~~"

\* the token at position i, "" past the end
At(s, i) == IF i \in 1..Len(s) THEN s[i] ELSE ""

RECURSIVE SkipWs(_, _)
SkipWs(s, i) == IF At(s, i) \in Whitespace THEN SkipWs(s, i + 1) ELSE i

\* the position after the string literal that starts at i, 0 if there is none
ParseString(s, i) ==
    IF At(s, i) # Quote THEN 0
    ELSE LET closing == {j \in (i + 1)..Len(s) : s[j] = Quote}
         IN  IF closing = {} THEN 0
             ELSE (CHOOSE j \in closing : \A k \in closing : j <= k) + 1

\* the JSON decoder: the position after the value that starts at i, 0 if the
\* text is not a value there
RECURSIVE ParseValue(_, _)
RECURSIVE ParseMembers(_, _)
ParseValue(s, i) ==
    LET c == At(s, i) IN
    IF c = "{"
    THEN LET j == SkipWs(s, i + 1)
         IN  IF At(s, j) = "}" THEN j + 1 ELSE ParseMembers(s, j)
    ELSE IF c = Quote THEN ParseString(s, i)
    ELSE IF c = "["
         THEN LET j == SkipWs(s, i + 1) IN IF At(s, j) = "]" THEN j + 1 ELSE 0
    ELSE 0
ParseMembers(s, i) ==
    LET k == ParseString(s, i) IN
    IF k = 0 THEN 0
    ELSE LET j == SkipWs(s, k) IN
         IF At(s, j) # ":" THEN 0
         ELSE LET v == ParseValue(s, SkipWs(s, j + 1)) IN
              IF v = 0 THEN 0
              ELSE LET m == SkipWs(s, v) IN
                   IF At(s, m) = "}" THEN m + 1
                   ELSE IF At(s, m) = "," THEN ParseMembers(s, SkipWs(s, m + 1))
                   ELSE 0

\* json.loads: the decoded value (written as its text) and whether it is a
\* dict, or a decoding error
json_loads(s) ==
    LET i == SkipWs(s, 1)
        e == ParseValue(s, i)
    IN  IF e # 0 /\ SkipWs(s, e) = Len(s) + 1
        THEN [ok |-> TRUE, dict |-> At(s, i) = "{", value |-> SubSeq(s, i, e - 1)]
        ELSE [ok |-> FALSE, dict |-> FALSE, value |-> <<>>]

\* _JSON_BLOCK_RE matched at i: the end of the shortest group (\{[\s\S]*?\}),
\* 0 if there is no match at i
FenceGroupStart(s, i) == SkipWs(s, IF At(s, i + 1) = "json" THEN i + 2 ELSE i + 1)
FenceGroupEnd(s, i) ==
    IF At(s, i) # Fence \/ At(s, FenceGroupStart(s, i)) # "{" THEN 0
    ELSE LET ends == {q \in (FenceGroupStart(s, i) + 1)..Len(s) :
                         s[q] = "}" /\ At(s, SkipWs(s, q + 1)) = Fence}
         IN  IF ends = {} THEN 0
             ELSE CHOOSE q \in ends : \A k \in ends : q <= k

\* _JSON_BLOCK_RE.search(text): group 1 of the leftmost match
FenceSearch(s) ==
    LET starts == {i \in 1..Len(s) : FenceGroupEnd(s, i) # 0} IN
    IF starts = {} THEN None
    ELSE LET i == CHOOSE x \in starts : \A y \in starts : x <= y
         IN  Some(SubSeq(s, FenceGroupStart(s, i), FenceGroupEnd(s, i)))

\* text[start : end + 1] for the first "{" and the last "}"
BraceSubstring(s) ==
    LET opens  == {i \in 1..Len(s) : s[i] = "{"}
        closes == {i \in 1..Len(s) : s[i] = "}"}
    IN  IF opens = {} \/ closes = {} THEN None
        ELSE LET start == CHOOSE i \in opens : \A k \in opens : i <= k
                 end   == CHOOSE i \in closes : \A k \in closes : i >= k
             IN  IF end > start THEN Some(SubSeq(s, start, end)) ELSE None

JsonFound(k, value) == [status |-> "ok", strategy |-> k, obj |-> value]
JsonRaised(why) == [status |-> "error", error |-> why]

\* the third strategy and the final raise
ExtractBraces(s) ==
    LET b == BraceSubstring(s) IN
    IF IsNone(b) THEN JsonRaised("could not parse")
    ELSE LET r == json_loads(Val(b)) IN
         IF ~r.ok THEN JsonRaised("JSONDecodeError")
         ELSE IF r.dict THEN JsonFound(3, r.value)
         ELSE JsonRaised("could not parse")

\* the second strategy: json.loads of the fenced group is not inside a try
ExtractFenced(s) ==
    LET m == FenceSearch(s) IN
    IF IsNone(m) THEN ExtractBraces(s)
    ELSE LET r == json_loads(Val(m)) IN
         IF ~r.ok THEN JsonRaised("JSONDecodeError")
         ELSE IF r.dict THEN JsonFound(2, r.value)
         ELSE ExtractBraces(s)

extract_json_object(text) ==
    LET s == Strip(text) IN
    IF s = <<>> THEN JsonRaised("empty model output")
    ELSE LET r == json_loads(s) IN
         IF r.ok /\ r.dict THEN JsonFound(1, r.value) ELSE ExtractFenced(s)

JsonObj == <<"{", Quote, "a", Quote, ":", Quote, "b", Quote, "}">>
JsonBad == <<"{", "a", "}">>
Fenced(x) == <<Fence, "json", " ">> \o x \o <<" ", Fence>>
InString(x) == <<"{", Quote, "a", Quote, ":", Quote>> \o x \o <<Quote, "}">>
JsonCores ==
    { <<>>, <<"a">>, <<"[", "]">>, <<"{", "}">>, JsonObj, JsonBad,
      <<"{", Quote, "a", Quote, ":", "{", "}", ",", Quote, "b", Quote, ":", "[", "]", "}">>,
      JsonObj \o <<" ">> \o JsonObj,
      Fenced(JsonObj), Fenced(JsonBad), Fenced(<<"[", "]">>),
      <<Fence>> \o JsonObj \o <<Fence>>,
      Fenced(JsonBad) \o <<" ">> \o Fenced(JsonObj),
      InString(<<Fence, "{", "}", Fence>>),
      InString(<<Fence, "{", "a", "}", Fence>>) }
JsonTexts ==
    { pre \o core \o post : pre \in {<<>>, <<" ">>, <<"a", " ">>},
                            core \in JsonCores,
                            post \in {<<>>, <<" ">>, <<" ", "a">>} }

InitJson ==
    /\ fnIn \in JsonTexts
    /\ fnDone = FALSE
    /\ fnOut = <<>>
    /\ AssignIdle
    /\ MergeIdle
    /\ GenIdle
    /\ ExportIdle
    /\ CacheIdle
    /\ RaceIdle

ExtractJson ==
    /\ ~fnDone
    /\ fnDone' = TRUE
    /\ fnOut' = extract_json_object(fnIn)
    /\ UNCHANGED <<fnIn, asgVars, mrgVars, genVars, expVars, cchVars, rceVars>>

NextJson == ExtractJson
SpecJson == InitJson /\ [][NextJson]_vars

\* what each strategy yields on its own: a mapping, or nothing
WholeMapping(s) ==
    LET r == json_loads(s) IN IF r.ok /\ r.dict THEN Some(r.value) ELSE None
FencedMapping(s) ==
    LET m == FenceSearch(s) IN
    IF IsNone(m) THEN None ELSE WholeMapping(Val(m))
BracesMapping(s) ==
    LET b == BraceSubstring(s) IN
    IF IsNone(b) THEN None ELSE WholeMapping(Val(b))

\* C17: extract_json_object returns the mapping of the first of the three
\* strategies (whole string, fenced block, first "{" to last "}") that yields
\* one; the brace substring is tried whenever the first two yield none, and
\* the call fails only for an empty text or when all three yield none.
C17_FirstStrategyWins ==
    fnDone =>
        LET s == Strip(fnIn) IN
        IF s = <<>> THEN fnOut.status = "error"
        ELSE IF ~IsNone(WholeMapping(s)) THEN fnOut = JsonFound(1, Val(WholeMapping(s)))
        ELSE IF ~IsNone(FencedMapping(s)) THEN fnOut = JsonFound(2, Val(FencedMapping(s)))
        ELSE IF ~IsNone(BracesMapping(s)) THEN fnOut = JsonFound(3, Val(BracesMapping(s)))
        ELSE fnOut.status = "error"

---------------------------------------------------------------------------
(* Overlapping generation calls: routes.py, engine.py, app.py *)

\* The endpoints are plain functions, so the server runs each request on a
\* worker thread.  The end of generate_subtasks and of generate_fake_vqa is
\*     ann = get_episode_annotations(ep)
\*     ann.<field> = (ann.<field> or []) + segments
\*     _save_annotations()
\* with no lock: the load of ann.<field>, the store into it and the save are
\* steps of their own, and another thread may run between them.

RaceEpisode == 0
MaxRaceBatch == 2

RaceField(op) == IF op = "subtasks" THEN "subtasks" ELSE "high_levels"

\* the segments a call has generated: records in the shape of its kind, the
\* two threads working on different parts of the episode
RaceSegments(p, op, n) ==
    [k \in 1..n |->
        IF op = "subtasks" THEN LoadedSubtask(MaxLoaded + MaxRaceBatch * (p - 1) + k)
        ELSE LoadedHighLevel(MaxLoaded + MaxRaceBatch * (p - 1) + k)]

NoRacer == [pc |-> "idle", op |-> "", segments |-> <<>>, snap |-> <<>>, status |-> ""]

\* append with the list this thread loaded itself
AppendStore_Reload(current, snap, segments) == current \o segments

\* (ann.<field> or []) + segments, with the list loaded one step earlier
AppendStore(current, snap, segments) == snap \o segments

\* the episode has been opened before: its entry in DataManager.annotations
\* exists
InitRace ==
    /\ dataset \in Datasets
    /\ loaded \in LoadedDocs
    /\ annotations = get_episode_annotations(loaded, RaceEpisode)
    /\ saved = loaded
    /\ pc = "unused"
    /\ req = <<>>
    /\ loc = <<>>
    /\ ret = <<>>
    /\ racers = [p \in Threads |-> NoRacer]
    /\ writeOrder = <<>>
    /\ AssignIdle
    /\ MergeIdle
    /\ ExportIdle
    /\ FnIdle
    /\ CacheIdle

OtherVarsOfRace == <<dataset, loaded, pc, req, loc, ret, asgVars, mrgVars, expVars, fnVars, cchVars>>

\* an append-mode call up to its persist block: the generator has returned
\* its segments
RaceGenerate(p, op, n) ==
    /\ racers[p].pc = "idle"
    /\ racers' = [racers EXCEPT ![p] =
                     [NoRacer EXCEPT !.pc = "generated", !.op = op,
                                     !.segments = RaceSegments(p, op, n)]]
    /\ UNCHANGED <<annotations, saved, writeOrder>>

\* ann = get_episode_annotations(ep); the load of ann.<field>
RaceLoad(p) ==
    /\ racers[p].pc = "generated"
    /\ racers' = [racers EXCEPT ![p].pc = "loaded",
                                ![p].snap = annotations[RaceEpisode][RaceField(racers[p].op)]]
    /\ UNCHANGED <<annotations, saved, writeOrder>>

\* the store into ann.<field>
RaceStore(p) ==
    /\ racers[p].pc = "loaded"
    /\ annotations' =
           [annotations EXCEPT ![RaceEpisode][RaceField(racers[p].op)] =
               AppendStore(@, racers[p].snap, racers[p].segments)]
    /\ writeOrder' = Append(writeOrder, p)
    /\ racers' = [racers EXCEPT ![p].pc = "stored"]
    /\ UNCHANGED saved

\* _save_annotations() and the return of the segments
RaceSave(p) ==
    /\ racers[p].pc = "stored"
    /\ saved' = _save_annotations(annotations)
    /\ racers' = [racers EXCEPT ![p].pc = "done", ![p].status = "ok"]
    /\ UNCHANGED <<annotations, writeOrder>>

NextRace ==
    \/ \E p \in Threads, op \in {"subtasks", "fake_vqa"}, n \in 1..MaxRaceBatch :
           RaceGenerate(p, op, n) /\ UNCHANGED OtherVarsOfRace
    \/ \E p \in Threads : RaceLoad(p) /\ UNCHANGED OtherVarsOfRace
    \/ \E p \in Threads : RaceStore(p) /\ UNCHANGED OtherVarsOfRace
    \/ \E p \in Threads : RaceSave(p) /\ UNCHANGED OtherVarsOfRace

SpecRace == InitRace /\ [][NextRace]_vars

---------------------------------------------------------------------------
(* Claims about overlapping generation calls *)

BothReturned == \A p \in Threads : racers[p].pc = "done" /\ racers[p].status = "ok"
RaceList(anns, op) == anns[RaceEpisode][RaceField(op)]
InitialList(op) == RaceList(get_episode_annotations(loaded, RaceEpisode), op)
LastWriter == writeOrder[Len(writeOrder)]
FirstWriter == writeOrder[1]

\* C18: two overlapping append-mode calls on one episode are not guarded
\* against each other.  Once both have returned success, the list in the
\* annotation state (and in the saved file) is what the last thread to store
\* had loaded plus its own batch; a thread loads either the initial list or
\* the initial list plus the other batch, so when the last writer loaded
\* before the first writer stored, the first writer's batch is missing.
C18_AppendRace ==
    BothReturned =>
        LET last == racers[LastWriter]
            first == racers[FirstWriter]
        IN  /\ RaceList(annotations, last.op) = last.snap \o last.segments
            /\ saved = annotations
            /\ first.snap = InitialList(first.op)
            /\ last.snap \in
                   { InitialList(last.op),
                     IF first.op = last.op
                     THEN InitialList(last.op) \o first.segments
                     ELSE InitialList(last.op) }

\* both calls on the same list returned success and the list holds only the
\* last writer's batch
C18_Witness ==
    /\ BothReturned
    /\ racers[1].op = racers[2].op
    /\ RaceList(annotations, racers[1].op) =
           InitialList(racers[1].op) \o racers[LastWriter].segments
    /\ RaceList(saved, racers[1].op) = RaceList(annotations, racers[1].op)
    /\ racers[FirstWriter].segments # <<>>

---------------------------------------------------------------------------
(* Generation calls with a stride that is zero or negative *)

NonPositiveStrides == {Some(0), Some(0 - Sec)}

\* a step cap keeps the runs short: without one generate_subtasks makes up to
\* its default of 200 windows and generate_fake_vqa ceil(duration / 1e-6)
\* steps
StrideSubtaskRequests ==
    [episode_index : {0},
     stride_s : NonPositiveStrides,
     summary_frames : {None},
     max_steps : {Some(2)},
     max_segments : {None},
     mode : {"replace", "append"},
     start_time_s : {None},
     resume_from_last : {FALSE},
     merge_adjacent : BOOLEAN]

StrideVqaRequests ==
    [episode_index : {0},
     stride_s : NonPositiveStrides,
     window_s : {None},
     max_steps : {Some(1), Some(2)},
     max_segments : {None},
     mode : {"replace", "append"},
     start_time_s : {None},
     resume_from_last : {FALSE}]

NextStride ==
    \/ \E r \in StrideSubtaskRequests, summary_ok \in BOOLEAN :
           SubtasksBegin(r, summary_ok) /\ UNCHANGED <<asgVars, mrgVars, expVars, fnVars, cchVars, rceVars>>
    \/ \E outcome \in SubtaskOutcomes :
           SubtasksWindow(outcome) /\ UNCHANGED <<asgVars, mrgVars, expVars, fnVars, cchVars, rceVars>>
    \/ \E r \in StrideVqaRequests :
           VqaBegin(r) /\ UNCHANGED <<asgVars, mrgVars, expVars, fnVars, cchVars, rceVars>>
    \/ \E outcome \in VqaOutcomes :
           VqaStep(outcome) /\ UNCHANGED <<asgVars, mrgVars, expVars, fnVars, cchVars, rceVars>>

SpecStride == Init /\ [][NextStride]_vars

\* C22: a generation call whose stride is zero or negative fails at once with
\* an input error: no window is processed (no transcoding, no inference
\* request), no segment is returned and the annotation state is unchanged.
C22_NonPositiveStrideFails ==
    (pc # "idle" /\ Val(req.stride_s) <= 0) =>
        /\ pc = "done"
        /\ ret.status = "error"
        /\ loc.windows = <<>>
        /\ ret.segments = <<>>
        /\ annotations = loaded
        /\ saved = loaded

---------------------------------------------------------------------------
(* Prompt templates: templating.py *)

\* a template is a sequence of tokens: "{", "}" and pieces of text; the
\* piece "a" is the name the mapping knows
MaxTplLen == 3
TplTokens == {"{", "}", "a", "b"}
Templates == UNION {[1..n -> TplTokens] : n \in 0..MaxTplLen}
TplMapping == [n \in {<<"a">>} |-> <<"x">>]

IsBrace(c) == c \in {"{", "}"}

\* the first brace after position i, 0 if there is none
NextBrace(s, i) ==
    LET braces == {j \in (i + 1)..Len(s) : IsBrace(s[j])}
    IN  IF braces = {} THEN 0 ELSE CHOOSE j \in braces : \A k \in braces : j <= k

\* string.Formatter().parse: the field names of the template, or ValueError
\* for a single "}", a "{" that is not closed, or a "{" inside a field
RECURSIVE FormatterParse(_, _, _)
FormatterParse(s, i, fields) ==
    IF i > Len(s) THEN [ok |-> TRUE, fields |-> fields]
    ELSE IF ~IsBrace(s[i]) THEN FormatterParse(s, i + 1, fields)
    ELSE IF At(s, i + 1) = s[i] THEN FormatterParse(s, i + 2, fields)
    ELSE IF s[i] = "}" THEN [ok |-> FALSE, fields |-> {}]
    ELSE LET j == NextBrace(s, i)
         IN  IF j = 0 \/ s[j] = "{" THEN [ok |-> FALSE, fields |-> {}]
             ELSE FormatterParse(s, j + 1, fields \cup {SubSeq(s, i + 1, j - 1)})

\* str.format_map on a template that parses: the text with every field
\* replaced, or an exception for a field without a name (IndexError) or with
\* a name the mapping lacks (KeyError)
RECURSIVE FormatMap(_, _, _, _)
FormatMap(s, i, mapping, out) ==
    IF i > Len(s) THEN [ok |-> TRUE, text |-> out]
    ELSE IF ~IsBrace(s[i]) THEN FormatMap(s, i + 1, mapping, Append(out, s[i]))
    ELSE IF At(s, i + 1) = s[i] THEN FormatMap(s, i + 2, mapping, Append(out, s[i]))
    ELSE IF s[i] = "}" THEN [ok |-> FALSE, text |-> <<>>]
    ELSE LET j == NextBrace(s, i)
             name == SubSeq(s, i + 1, j - 1)
         IN  IF j = 0 \/ s[j] = "{" \/ name = <<>> \/ name \notin DOMAIN mapping
             THEN [ok |-> FALSE, text |-> <<>>]
             ELSE FormatMap(s, j + 1, mapping, out \o mapping[name])

\* safe_format with the parse inside the try as well
safe_format_ParseGuarded(template, mapping) ==
    LET parsed == FormatterParse(template, 1, {})
        needed == parsed.fields \ {<<>>}
        filled == [n \in DOMAIN mapping \cup needed |->
                      IF n \in DOMAIN mapping THEN mapping[n] ELSE <<>>]
        done   == FormatMap(template, 1, filled, <<>>)
    IN  IF parsed.ok /\ done.ok THEN [status |-> "ok", text |-> done.text]
        ELSE [status |-> "ok", text |-> template]

\* safe_format: the parse of line 24 is outside the try, format_map inside
safe_format(template, mapping) ==
    LET parsed == FormatterParse(template, 1, {})
        needed == parsed.fields \ {<<>>}
        filled == [n \in DOMAIN mapping \cup needed |->
                      IF n \in DOMAIN mapping THEN mapping[n] ELSE <<>>]
        done   == FormatMap(template, 1, filled, <<>>)
    IN  IF ~parsed.ok THEN [status |-> "ValueError", text |-> <<>>]
        ELSE IF done.ok THEN [status |-> "ok", text |-> done.text]
        ELSE [status |-> "ok", text |-> template]

InitTemplate ==
    /\ fnIn \in Templates
    /\ fnDone = FALSE
    /\ fnOut = <<>>
    /\ AssignIdle
    /\ MergeIdle
    /\ GenIdle
    /\ ExportIdle
    /\ CacheIdle
    /\ RaceIdle

SafeFormat ==
    /\ ~fnDone
    /\ fnDone' = TRUE
    /\ fnOut' = safe_format(fnIn, TplMapping)
    /\ UNCHANGED <<fnIn, asgVars, mrgVars, genVars, expVars, cchVars, rceVars>>

NextTemplate == SafeFormat
SpecTemplate == InitTemplate /\ [][NextTemplate]_vars

\* C26: safe_format never raises: for every template, unbalanced or malformed
\* braces included, it returns a string: the template with known
\* placeholders substituted and unknown ones filled with the empty string,
\* or, on any formatting failure, the original template unmodified.
C26_SafeFormatNeverRaises ==
    fnDone => fnOut = safe_format_ParseGuarded(fnIn, TplMapping)

---------------------------------------------------------------------------
(* The inference client: client_openai.py *)

\* what the server answers to the one POST: a status code and a body.  A body
\* that is a JSON object is described by what it holds under "choices", what
\* the first choice holds under "message" and what the message holds under
\* "content" ("absent": no such key, Null: the key with null)
ChatStatusCodes == {200, 204, 404, 429, 500}
ChatEnvelope(choices, message, content) ==
    [kind |-> "object", choices |-> choices, message |-> message, content |-> content]
ChatBodies ==
    { [kind |-> "not_json"], [kind |-> "list"] }
    \cup { ChatEnvelope(c, "absent", "absent") : c \in {"absent", Null, "empty"} }
    \cup { ChatEnvelope("one", m, "absent") : m \in {"absent", Null} }
    \cup { ChatEnvelope("one", "object", c) : c \in {"absent", Null, "", "hi"} }
ChatResponses == [status_code : ChatStatusCodes, body : ChatBodies]

ChatRaised(why) == [status |-> why, text |-> "", posts |-> 1]
ChatReturned(text) == [status |-> "ok", text |-> text, posts |-> 1]

\* (data.get("choices") or [{}])[0].get("message", {}).get("content", "")
ChatContent(body) ==
    LET hasChoice == body.choices = "one"
        message   == IF hasChoice THEN body.message ELSE "absent"
    IN  IF message = Null THEN ChatRaised("AttributeError")
        ELSE IF message = "absent" \/ body.content = "absent" THEN ChatReturned("")
        ELSE ChatReturned(body.content)

\* chat: one requests.post, raise_for_status, r.json(), the content lookup
chat(resp) ==
    IF resp.status_code >= 400 THEN ChatRaised("HTTPError")
    ELSE IF resp.body.kind = "not_json" THEN ChatRaised("JSONDecodeError")
    ELSE IF resp.body.kind = "list" THEN ChatRaised("AttributeError")
    ELSE ChatContent(resp.body)

InitChat ==
    /\ fnIn \in ChatResponses
    /\ fnDone = FALSE
    /\ fnOut = <<>>
    /\ AssignIdle
    /\ MergeIdle
    /\ GenIdle
    /\ ExportIdle
    /\ CacheIdle
    /\ RaceIdle

Chat ==
    /\ ~fnDone
    /\ fnDone' = TRUE
    /\ fnOut' = chat(fnIn)
    /\ UNCHANGED <<fnIn, asgVars, mrgVars, genVars, expVars, cchVars, rceVars>>

NextChat == Chat
SpecChat == InitChat /\ [][NextChat]_vars

\* the body has no choices, no message or no content
MalformedEnvelope(body) ==
    \/ body.kind # "object"
    \/ body.choices # "one"
    \/ body.message # "object"
    \/ body.content \in {"absent", Null}

\* C27: chat performs exactly one request per call, and both a non-2xx
\* response and a malformed envelope (no choices, no message or no content)
\* make the call fail instead of returning a text.
C27_ChatHardFailure ==
    fnDone =>
        /\ fnOut.posts = 1
        /\ (fnIn.status_code \notin 200..299 \/ MalformedEnvelope(fnIn.body))
               => fnOut.status # "ok"

---------------------------------------------------------------------------
(* The windows of both generators, for episodes anywhere in a video file *)

\* episode 0 with every kind of offsets next to its length: none, a span as
\* long as the episode, a shorter span, a span of one millisecond, an end
\* before the start
WindowRows ==
    [length : {75, 300},
     from_timestamp : {None, Some(0), Some(20 * Sec)},
     to_timestamp : {None, Some(20 * Sec + Ms), Some(2500 * Ms), Some(30 * Sec)},
     video_file : {TRUE}]
WindowDatasets ==
    { [fps |-> 30, video_key |-> TRUE, has_timestamp_cols |-> TRUE,
       rows |-> [e \in {0} |-> row]] : row \in WindowRows }

WindowOf(timing, seg_start, seg_end) ==
    LET abs == AbsWindow(timing, seg_start, seg_end)
    IN  [seg_start |-> seg_start, seg_end |-> seg_end,
         abs_start |-> abs.abs_start, abs_end |-> abs.abs_end]

\* the windows of the while loop of AutoSubtaskGenerator.generate
RECURSIVE SubtaskWindows(_, _)
SubtaskWindows(l, done) ==
    IF ~SubtaskLoopRuns(l) THEN done
    ELSE SubtaskWindows([l EXCEPT !.t = @ + l.stride_s, !.steps = @ + 1],
                        Append(done, WindowOf(l.timing, l.t,
                                              Min(l.duration, l.t + l.stride_s))))

\* the windows of the while loop of AutoVQAGenerator.generate: the clip
\* reaches from t to check_end
RECURSIVE VqaWindows(_, _, _, _, _)
VqaWindows(timing, t, stride_s, window_s, done) ==
    IF ~(t < timing.duration - Micro) THEN done
    ELSE VqaWindows(timing, t + stride_s, stride_s, window_s,
                    Append(done, WindowOf(timing, t, Min(timing.duration, t + window_s))))

\* both generators up to their last window, every window succeeding
GeneratorWindows(in) ==
    LET timing == get_episode_timing(in.dataset, 0)
        start  == IF IsNone(in.start_time_s) THEN 0 ELSE Val(in.start_time_s)
    IN  IF in.generator = "subtasks"
        THEN IF timing.duration <= 0 THEN <<>>
             ELSE SubtaskWindows([t |-> SubtaskT0(in.start_time_s, timing.duration),
                                  steps |-> 0,
                                  stride_s |-> ClampStride(in.stride_s),
                                  max_steps |-> DefaultSubtaskMaxSteps,
                                  duration |-> timing.duration,
                                  timing |-> timing], <<>>)
        ELSE LET stride == Max(in.stride_s, Ms)
                 window == Min(Max(in.window_s, Ms), stride)
             IN  VqaWindows(timing, Max(0, Min(start, Max(0, timing.duration - Ms))),
                            stride, window, <<>>)

InitWindows ==
    /\ fnIn \in [dataset : WindowDatasets,
                 generator : {"subtasks", "fake_vqa"},
                 start_time_s : {None, Some(0 - Sec), Some(5 * Sec), Some(12 * Sec)},
                 stride_s : {2 * Sec, 5 * Sec, HugeStride},
                 window_s : {0, 2 * Sec, 7 * Sec}]
    /\ fnDone = FALSE
    /\ fnOut = <<>>
    /\ AssignIdle
    /\ MergeIdle
    /\ GenIdle
    /\ ExportIdle
    /\ CacheIdle
    /\ RaceIdle

GenerateWindows ==
    /\ ~fnDone
    /\ fnDone' = TRUE
    /\ fnOut' = GeneratorWindows(fnIn)
    /\ UNCHANGED <<fnIn, asgVars, mrgVars, genVars, expVars, cchVars, rceVars>>

NextWindows == GenerateWindows
SpecWindows == InitWindows /\ [][NextWindows]_vars

WindowTiming == get_episode_timing(fnIn.dataset, 0)

\* C29: on an episode whose span in the video file is at least 1 ms, every
\* window of either generator hands the sampler absolute times with
\* video_start_time <= abs_start < abs_end <= video_end_time, whatever the
\* start time, the stride and the window length are.
C29_WindowInsideEpisode ==
    (fnDone /\ WindowTiming.video_end_time - WindowTiming.video_start_time >= Ms) =>
        \A k \in 1..Len(fnOut) :
            /\ WindowTiming.video_start_time <= fnOut[k].abs_start
            /\ fnOut[k].abs_start < fnOut[k].abs_end
            /\ fnOut[k].abs_end <= WindowTiming.video_end_time

\* an episode that starts 20 s into its file and spans less than its
\* duration there: a later window's own end lies beyond the episode's end in
\* the file
C29_Witness ==
    /\ fnDone
    /\ WindowTiming.video_start_time = 20 * Sec
    /\ WindowTiming.video_end_time - WindowTiming.video_start_time >= Ms
    /\ Len(fnOut) >= 2
    /\ \E k \in 1..Len(fnOut) :
           /\ WindowTiming.video_start_time + fnOut[k].seg_end > WindowTiming.video_end_time
           /\ fnOut[k].abs_end = WindowTiming.video_end_time

---------------------------------------------------------------------------
(* Export: app.py export_dataset *)

\* sorted() on the labels the model uses
LabelOrder == <<"L0", "L1">>

\* dict.values() of the annotations, in ascending episode order
RECURSIVE AnnValues(_)
AnnValues(anns) ==
    IF DOMAIN anns = {} THEN <<>>
    ELSE LET e == CHOOSE x \in DOMAIN anns : \A y \in DOMAIN anns : x <= y
         IN  <<anns[e]>> \o AnnValues(Drop(anns, e))

RECURSIVE Flatten(_)
Flatten(ss) == IF ss = <<>> THEN <<>> ELSE Head(ss) \o Flatten(Tail(ss))

\* subtask_map of build_subtasks_dataframe: the sorted non-empty labels,
\* numbered from 0
build_subtasks_dataframe(anns) ==
    LET vals   == AnnValues(anns)
        segs   == Flatten([i \in 1..Len(vals) |-> vals[i].subtasks])
        used   == {Get(segs[i], "label", "") : i \in 1..Len(segs)} \ {""}
        InUse(l) == l \in used
        labels == SelectSeq(LabelOrder, InUse)
    IN  [l \in used |-> (CHOOSE idx \in 1..Len(labels) : labels[idx] = l) - 1]

\* the loop of build_high_level_dataframe: a key gets the next number the
\* first time it is seen
RECURSIVE TaskMapLoop(_, _)
TaskMapLoop(segs, task_map) ==
    IF segs = <<>> THEN task_map
    ELSE LET key == make_task_key(Head(segs))
         IN  TaskMapLoop(Tail(segs),
                         IF key \in DOMAIN task_map THEN task_map
                         ELSE Put(task_map, key, Cardinality(DOMAIN task_map)))

build_high_level_dataframe(anns) ==
    LET vals == AnnValues(anns)
    IN  TaskMapLoop(Flatten([i \in 1..Len(vals) |-> vals[i].high_levels]), <<>>)

\* int(round(float(ts) * fps)) for timestamps away from half frames
FrameOf(ts, fps) == (2 * ts * fps + Sec) \div (2 * Sec)

assign_vqa_flags(timestamps, qa_labels, fps) ==
    LET frame_set == {qa_labels[k].frame_idx : k \in 1..Len(qa_labels)}
    IN  [i \in 1..Len(timestamps) |->
            IF FrameOf(timestamps[i], fps) \in frame_set THEN 1 ELSE 0]

\* the names bound in export_dataset when line 431 is evaluated, and the
\* names bound at module level in app.py that the function uses
ExportLocalNames ==
    {"self", "output_dir", "copy_videos", "out_root", "name", "src_meta",
     "dst_meta", "subtasks_df", "subtask_map", "tasks_df", "task_map"}
AppGlobalNames ==
    {"EXPORT_ROOT", "HTTPException", "Path", "json", "os", "pd", "shutil",
     "assign_indices_by_segments", "assign_vqa_flags",
     "build_high_level_dataframe", "build_qa_labels_dataframe",
     "build_subtasks_dataframe"}
NameBound(name) == name \in ExportLocalNames \cup AppGlobalNames

\* one data file as export_dataset writes it: the three columns set to their
\* defaults, then filled per annotated episode
ExportPartition(df, anns, subtask_map, task_map, fps) ==
    [i \in 1..Len(df) |->
        LET ep  == df[i].episode_index
            ts  == <<df[i].timestamp>>
            has == ep \in DOMAIN anns
            ann == Get(anns, ep, EpisodeAnnotations)
        IN  [episode_index |-> ep,
             timestamp |-> df[i].timestamp,
             subtask_index |->
                 IF has /\ ann.subtasks # <<>> /\ DOMAIN subtask_map # {}
                 THEN assign_indices_by_segments(ts, ann.subtasks, subtask_map, "label")[1]
                 ELSE -1,
             task_index_high_level |->
                 IF has /\ ann.high_levels # <<>> /\ DOMAIN task_map # {}
                 THEN assign_indices_by_segments(ts, ann.high_levels, task_map, "task_key")[1]
                 ELSE -1,
             vqa |->
                 IF has /\ ann.qa_labels # <<>>
                 THEN assign_vqa_flags(ts, ann.qa_labels, fps)[1]
                 ELSE 0]]

ExportRaised(why, meta) == [status |-> why, meta_copied |-> meta, written |-> <<>>]

\* export_dataset: the loaded check, the meta copy, the three tables, then
\* the data files one after the other
export_dataset(in) ==
    IF ~in.loaded THEN ExportRaised("http_400", FALSE)
    ELSE LET subtask_map == build_subtasks_dataframe(in.annotations)
             task_map    == build_high_level_dataframe(in.annotations)
         IN  IF ~NameBound("fps") THEN ExportRaised("NameError", TRUE)
             ELSE IF in.data_files = <<>> THEN ExportRaised("http_404", TRUE)
             ELSE [status |-> "ok",
                   meta_copied |-> TRUE,
                   written |-> [k \in 1..Len(in.data_files) |->
                                   ExportPartition(in.data_files[k], in.annotations,
                                                   subtask_map, task_map, in.fps)]]

Row(ep, ts) == [episode_index |-> ep, timestamp |-> ts]
ExpPartition0 == <<Row(0, 0), Row(0, Sec), Row(0, 3 * Sec)>>
ExpPartition1 == <<Row(1, 0), Row(1, 500 * Ms)>>
ExpDataFiles == {<<>>, <<ExpPartition0>>, <<ExpPartition0, ExpPartition1>>}

ExpSubtaskLists ==
    {<<>>, <<Seg(0, Sec, "L0")>>, <<Seg(0, Sec, "L1"), Seg(Sec, 2 * Sec, "L0")>>}
ExpHighLevel(q) ==
    [start |-> 0, end |-> Sec, user_prompt |-> q, robot_utterance |-> "a",
     skill |-> "", scenario_type |-> "", response_type |-> ""]
ExpHighLists == {<<>>, <<ExpHighLevel("q")>>}
ExpQaLists == {<<>>, <<[frame_idx |-> 0, type |-> "", question |-> "q", answer |-> "a"]>>}
ExpEpisodeAnnotations ==
    [subtasks : ExpSubtaskLists, high_levels : ExpHighLists, qa_labels : ExpQaLists]
ExpAnnotations ==
    UNION {[eps -> ExpEpisodeAnnotations] : eps \in {{}, {0}, {0, 1}}}

InitExport ==
    /\ expIn \in [loaded : BOOLEAN, fps : {30}, annotations : ExpAnnotations,
                  data_files : ExpDataFiles]
    /\ expDone = FALSE
    /\ expOut = <<>>
    /\ AssignIdle
    /\ MergeIdle
    /\ GenIdle
    /\ FnIdle
    /\ CacheIdle
    /\ RaceIdle

ExportDataset ==
    /\ ~expDone
    /\ expDone' = TRUE
    /\ expOut' = export_dataset(expIn)
    /\ UNCHANGED <<expIn, asgVars, mrgVars, genVars, fnVars, cchVars, rceVars>>

NextExport == ExportDataset
SpecExport == InitExport /\ [][NextExport]_vars

---------------------------------------------------------------------------
(* The label tables of an export, built on their own *)

MapSubtaskLists ==
    {<<>>, <<Seg(0, Sec, "L0")>>, <<Seg(0, Sec, "L1"), Seg(Sec, 2 * Sec, "L0")>>,
     <<Seg(0, Sec, "L1"), Seg(Sec, 2 * Sec, "L1")>>}
MapHighLists ==
    {<<>>, <<ExpHighLevel("q")>>, <<ExpHighLevel("r"), ExpHighLevel("q")>>,
     <<ExpHighLevel("q"), ExpHighLevel("q")>>}
MapAnnotations ==
    UNION {[eps -> [subtasks : MapSubtaskLists, high_levels : MapHighLists,
                    qa_labels : {<<>>}]] : eps \in {{0}, {0, 1}}}

InitMaps ==
    /\ fnIn \in MapAnnotations
    /\ fnDone = FALSE
    /\ fnOut = <<>>
    /\ AssignIdle
    /\ MergeIdle
    /\ GenIdle
    /\ ExportIdle
    /\ CacheIdle
    /\ RaceIdle

\* the two calls of export_dataset that build the tables
BuildMaps ==
    /\ ~fnDone
    /\ fnDone' = TRUE
    /\ fnOut' = [subtask_map |-> build_subtasks_dataframe(fnIn),
                 task_map |-> build_high_level_dataframe(fnIn)]
    /\ UNCHANGED <<fnIn, asgVars, mrgVars, genVars, expVars, cchVars, rceVars>>

NextMaps == BuildMaps
SpecMaps == InitMaps /\ [][NextMaps]_vars

\* the items of a sequence numbered 0, 1, 2, ... in the order of their first
\* occurrence
FirstSeen(items) ==
    [x \in {items[i] : i \in 1..Len(items)} |->
        LET first == CHOOSE i \in 1..Len(items) :
                         items[i] = x /\ \A j \in 1..(i - 1) : items[j] # x
        IN  Cardinality({items[j] : j \in 1..(first - 1)})]

\* the non-empty subtask labels / the task keys of an annotation set, in
\* episode order and then segment order
LabelsInOrder(anns) ==
    LET vals == AnnValues(anns)
        segs == Flatten([i \in 1..Len(vals) |-> vals[i].subtasks])
        NonEmpty(l) == l # ""
    IN  SelectSeq([i \in 1..Len(segs) |-> Get(segs[i], "label", "")], NonEmpty)
KeysInOrder(anns) ==
    LET vals == AnnValues(anns)
        segs == Flatten([i \in 1..Len(vals) |-> vals[i].high_levels])
    IN  [i \in 1..Len(segs) |-> make_task_key(segs[i])]

\* C23: the subtask label mapping, like the high-level mapping, numbers its
\* labels 0, 1, 2, ... in first-seen order over the annotation set (episode
\* order, then segment order), one mapping for all episodes.
C23_FirstSeenNumbering ==
    fnDone =>
        /\ fnOut.subtask_map = FirstSeen(LabelsInOrder(fnIn))
        /\ fnOut.task_map = FirstSeen(KeysInOrder(fnIn))

---------------------------------------------------------------------------
(* The export-time lookups applied to stored high-level segments *)

\* a high-level segment as SegmentHighLevel.dict() stores it, each optional
\* field absent, null or a text
KeyOptional(seg, key, v) == IF v = "absent" THEN seg ELSE Put(seg, key, v)
KeySegments ==
    { KeyOptional(KeyOptional(KeyOptional(
          [start |-> 0, end |-> Sec, user_prompt |-> q, robot_utterance |-> "a"],
          "skill", sk), "scenario_type", sc), "response_type", rt) :
      q \in {"q", "r"}, sk \in {"absent", Null, "s"},
      sc \in {"absent", Null, "v"}, rt \in {"absent", Null, "t"} }
KeyTimestamps == <<0, 500 * Ms, Sec, 2 * Sec>>

Lookup(raises, value) ==
    IF raises THEN [status |-> "TypeError", value |-> <<>>]
    ELSE [status |-> "ok", value |-> value]

\* the three lookups, each returning its value or raising where the key of a
\* segment it needs cannot be joined
MakeTaskKeyCall(seg) == Lookup(TaskKeyRaises(seg), make_task_key(seg))
BuildHighLevelCall(anns) ==
    LET vals == AnnValues(anns)
        segs == Flatten([i \in 1..Len(vals) |-> vals[i].high_levels])
    IN  Lookup(\E i \in 1..Len(segs) : TaskKeyRaises(segs[i]),
               build_high_level_dataframe(anns))
AssignTaskKeyCall(timestamps, segments, mapping) ==
    LET sorted == segments_sorted(segments)
        Hits(ts_val) == {j \in 1..Len(sorted) : SegmentMatches(sorted, j, ts_val)}
        First(ts_val) == CHOOSE j \in Hits(ts_val) : \A k \in Hits(ts_val) : j <= k
    IN  Lookup(\E i \in 1..Len(timestamps) :
                   /\ Hits(timestamps[i]) # {}
                   /\ TaskKeyRaises(sorted[First(timestamps[i])]),
               assign_indices_by_segments(timestamps, segments, mapping, "task_key"))

InitKeys ==
    /\ fnIn \in KeySegments
    /\ fnDone = FALSE
    /\ fnOut = <<>>
    /\ AssignIdle
    /\ MergeIdle
    /\ GenIdle
    /\ ExportIdle
    /\ CacheIdle
    /\ RaceIdle

TaskKeyLookups ==
    /\ ~fnDone
    /\ fnDone' = TRUE
    /\ LET anns  == [e \in {0} |-> [subtasks |-> <<>>, high_levels |-> <<fnIn>>,
                                    qa_labels |-> <<>>]]
           table == BuildHighLevelCall(anns)
       IN  fnOut' = [key |-> MakeTaskKeyCall(fnIn),
                     table |-> table,
                     indices |-> AssignTaskKeyCall(KeyTimestamps, <<fnIn>>, table.value)]
    /\ UNCHANGED <<fnIn, asgVars, mrgVars, genVars, expVars, cchVars, rceVars>>

NextKeys == TaskKeyLookups
SpecKeys == InitKeys /\ [][NextKeys]_vars

AbsentOrNull(seg, key) == key \in DOMAIN seg => seg[key] = Null

\* C25: for a high-level segment that has start, end, user_prompt and
\* robot_utterance and whose skill, scenario_type and response_type are each
\* absent or null, make_task_key, build_high_level_dataframe and
\* assign_indices_by_segments with label_key "task_key" return a value and do
\* not raise.
C25_LookupsNeverRaise ==
    (/\ fnDone
     /\ AbsentOrNull(fnIn, "skill")
     /\ AbsentOrNull(fnIn, "scenario_type")
     /\ AbsentOrNull(fnIn, "response_type")) =>
        /\ fnOut.key.status = "ok"
        /\ fnOut.table.status = "ok"
        /\ fnOut.indices.status = "ok"

---------------------------------------------------------------------------
(* Claims about export_dataset *)

\* C7: export_dataset on a loaded dataset with at least one data partition
\* completes without error, and every partition it writes carries
\* subtask_index, task_index_high_level and vqa, holding -1, -1 and 0 on
\* every row of an episode without annotations.
C7_ExportCompletes ==
    (expDone /\ expIn.loaded /\ expIn.data_files # <<>>) =>
        /\ expOut.status = "ok"
        /\ Len(expOut.written) = Len(expIn.data_files)
        /\ \A k \in 1..Len(expOut.written) : \A i \in 1..Len(expOut.written[k]) :
              LET row == expOut.written[k][i]
              IN  row.episode_index \notin DOMAIN expIn.annotations =>
                      /\ row.subtask_index = -1
                      /\ row.task_index_high_level = -1
                      /\ row.vqa = 0

=============================================================================
